---- MODULE Spec2Model ----
(***************************************************************************)
(* KEYWAVE (static/app.js): the note scheduling and polyphonic voice       *)
(* engine.  Key presses are mapped to notes, scheduled (immediately, on    *)
(* the snap grid, or through the quantize buffer) and handed to a pool of  *)
(* at most MAX_VOICES voices.                                              *)
(*                                                                         *)
(* Time is an integer number of milliseconds.  The page clock `now' and    *)
(* the audio clock `audioTime' (audioContext.currentTime) advance together *)
(* from one instant to the next: an instant at which the environment acts  *)
(* or a timer falls due, never past a due timer or past a run of the       *)
(* quantize interval that would play a note.  The audio clock stands still *)
(* while the context is suspended.  JavaScript is single threaded: every   *)
(* handler runs to completion, so every handler is one action.  Each       *)
(* specification fixes its bounds and instants in `lim'.                   *)
(***************************************************************************)
EXTENDS Integers, Sequences, FiniteSets, TLC

(***************************************************************************)
(* Program constants                                                       *)
(***************************************************************************)
MAX_VOICES == 6
MAX_BUFFER_SIZE == 24
\* period of the setInterval callback of startQuantizeInterval, ms
TICK_MS == 5
\* snap mode plays at once when the next boundary is at most this near, ms
SNAP_NOW_MS == 10
\* delay of the double-tap echo, ms
DOUBLE_TAP_MS == 80
\* stagger between the tones of a chord, ms
CHORD_STAGGER_MS == 15
\* ms per character of playback at speed 1
BASE_DELAY_MS == 150
\* velocities are fixed point: VEL_ONE stands for 1.0
VEL_ONE == 1000000
\* "no value": quantizeStartTime = null
NoTime == -1

(***************************************************************************)
(* Bounds of the model.  Each specification below runs under its own       *)
(* bounds, kept in the variable `lim', which no action changes.            *)
(***************************************************************************)
\* voice pool specification: clock periods, voices, pending timers
PoolSlots == 60
PoolVoices == 8
PoolEntries == 4
PoolTimers == 2
BufSlots == 20
BufVoices == 2
BufEntries == 26
BufTimers == 0
SnapSlots == 100
SnapVoices == 3
SnapTimers == 2
RearmSlots == 100
RearmVoices == 2
RearmEntries == 2
RearmTimers == 1
PlaySlots == 100
PlayVoices == 2
PlayEntries == 2
PlayTimers == 2
SeqSlots == 120
SeqVoices == 5
SeqTimers == 4
RunSlots == 100
RunVoices == 4
RunTimers == 4
PowerSlots == 60
PowerVoices == 3
PowerEntries == 2
PowerTimers == 3
KeySlots == 40
KeyVoices == 5
MapVoices == 1
ArpSlots == 80
ArpVoices == 5
ArpEntries == 1
ArpTimers == 5
ChordSlots == 60
ChordVoices == 4
ChordEntries == 4
ChordTimers == 4
TagSlots == 110
TagVoices == 5
TagEntries == 6
TagTimers == 4
VelSlots == 16
VelVoices == 3
VelTimers == 4
OctaveSlots == 40
OctaveVoices == 2
EchoSlots == 60
EchoVoices == 4
EchoEntries == 26
EchoTimers == 3
DrainSlots == 100
DrainVoices == 5
DrainEntries == 4
ColdSlots == 80
ColdVoices == 4
ColdTimers == 2
ToneSlots == 400
ToneVoices == 14
ToneTimers == 14

(***************************************************************************)
(* Tables                                                                  *)
(***************************************************************************)
Min(a, b) == IF a <= b THEN a ELSE b
Max(a, b) == IF a >= b THEN a ELSE b

SCALES ==
  [ major            |-> <<0, 2, 4, 5, 7, 9, 11>>,
    minor            |-> <<0, 2, 3, 5, 7, 8, 10>>,
    pentatonic_major |-> <<0, 2, 4, 7, 9>>,
    pentatonic_minor |-> <<0, 3, 5, 7, 10>>,
    dorian           |-> <<0, 2, 3, 5, 7, 9, 10>>,
    phrygian         |-> <<0, 1, 3, 5, 7, 8, 10>>,
    lydian           |-> <<0, 2, 4, 6, 7, 9, 11>>,
    mixolydian       |-> <<0, 2, 4, 5, 7, 9, 10>>,
    aeolian          |-> <<0, 2, 3, 5, 7, 8, 10>>,
    locrian          |-> <<0, 1, 3, 5, 6, 8, 10>>,
    blues            |-> <<0, 3, 5, 6, 7, 10>>,
    bebop_major      |-> <<0, 2, 4, 5, 7, 8, 9, 11>>,
    bebop_dominant   |-> <<0, 2, 4, 5, 7, 9, 10, 11>>,
    jazz_minor       |-> <<0, 2, 3, 5, 7, 9, 11>>,
    japanese         |-> <<0, 1, 5, 7, 10>>,
    arabic           |-> <<0, 1, 4, 5, 7, 8, 11>>,
    hungarian_minor  |-> <<0, 2, 3, 6, 7, 8, 11>>,
    whole_tone       |-> <<0, 2, 4, 6, 8, 10>>,
    chromatic        |-> <<0, 1, 2, 3, 4, 5, 6, 7, 8, 9, 10, 11>>,
    diminished       |-> <<0, 2, 3, 5, 6, 8, 9, 11>>,
    augmented        |-> <<0, 3, 4, 7, 8, 11>> ]

ScaleNames == DOMAIN SCALES

KEYBOARD_ROWS ==
  [ top    |-> <<"q", "w", "e", "r", "t", "y", "u", "i", "o", "p", "[", "]">>,
    middle |-> <<"a", "s", "d", "f", "g", "h", "j", "k", "l", ";", "'">>,
    bottom |-> <<"z", "x", "c", "v", "b", "n", "m", ",", ".", "/">> ]

\* index (from 0) of key in row, or -1
RowPosition(row, key) ==
  IF \E i \in 1..Len(row) : row[i] = key
  THEN (CHOOSE i \in 1..Len(row) : row[i] = key) - 1
  ELSE -1

\* SPATIAL_MAP[key]: <<position, octaveOffset>>, or <<>> when key is no row key
SPATIAL_MAP(key) ==
  IF RowPosition(KEYBOARD_ROWS.bottom, key) >= 0
    THEN <<RowPosition(KEYBOARD_ROWS.bottom, key), -1>>
  ELSE IF RowPosition(KEYBOARD_ROWS.middle, key) >= 0
    THEN <<RowPosition(KEYBOARD_ROWS.middle, key), 0>>
  ELSE IF RowPosition(KEYBOARD_ROWS.top, key) >= 0
    THEN <<RowPosition(KEYBOARD_ROWS.top, key), 1>>
  ELSE <<>>

\* LETTER_TIERS[key]: <<tier, degree>>
LETTER_TIERS ==
  [ a |-> <<0, 0>>, e |-> <<0, 0>>, i |-> <<0, 4>>, o |-> <<0, 4>>, u |-> <<0, 2>>,
    t |-> <<1, 1>>, n |-> <<1, 2>>, s |-> <<1, 3>>, r |-> <<1, 2>>, h |-> <<1, 1>>,
    l |-> <<1, 3>>, d |-> <<1, 4>>, c |-> <<1, 3>>, m |-> <<1, 1>>, y |-> <<1, 4>>,
    w |-> <<2, 0>>, f |-> <<2, 2>>, g |-> <<2, 4>>, p |-> <<2, 1>>, b |-> <<2, 3>>,
    v |-> <<2, 0>>, k |-> <<2, 4>>,
    j |-> <<3, 0>>, x |-> <<3, 2>>, q |-> <<3, 4>>, z |-> <<3, 0>> ]

Letters == DOMAIN LETTER_TIERS

CHORDS ==
  [ c1 |-> <<0, 4, 7>>,   c2 |-> <<2, 5, 9>>,    c3 |-> <<4, 7, 11>>,
    c4 |-> <<5, 9, 12>>,  c5 |-> <<7, 11, 14>>,  c6 |-> <<9, 12, 16>>,
    c7 |-> <<11, 14, 17>>, c8 |-> <<12, 16, 19>>, c9 |-> <<0, 5, 7>>,
    c0 |-> <<0, 7, 12>> ]

Digits == {"0", "1", "2", "3", "4", "5", "6", "7", "8", "9"}

\* the semitones of CHORDS[digit]
ChordSemitones(digit) ==
  CASE digit = "0" -> CHORDS.c0 [] digit = "1" -> CHORDS.c1
    [] digit = "2" -> CHORDS.c2 [] digit = "3" -> CHORDS.c3
    [] digit = "4" -> CHORDS.c4 [] digit = "5" -> CHORDS.c5
    [] digit = "6" -> CHORDS.c6 [] digit = "7" -> CHORDS.c7
    [] digit = "8" -> CHORDS.c8 [] digit = "9" -> CHORDS.c9

\* ARP_INTERVALS.triad_oct
ARP_INTERVALS == <<0, 4, 7, 12>>

\* keyLower.charCodeAt(0) for the keys of the model that are no letters
CharCode(key) ==
  CASE key = ";" -> 59 [] key = "," -> 44 [] key = "." -> 46 [] key = "/" -> 47
    [] key = "[" -> 91 [] key = "]" -> 93 [] key = "'" -> 39 [] key = "-" -> 45
    [] key = "=" -> 61 [] key = "shift" -> 115 [] key = "caps_lock" -> 99
    [] OTHER -> 63

(***************************************************************************)
(* State                                                                   *)
(***************************************************************************)
VARIABLES
  now,                  \* page clock, ms (setTimeout and setInterval run on it)
  audioState,           \* "none" (audioContext = null), "running", "suspended"
  audioTime,            \* audioContext.currentTime, ms
  isPoweredOn,
  settings,             \* the fields of `settings' the engine reads
  modifiers,
  voicePool,            \* sequence of voices, oldest first
  quantizeStartTime,    \* the grid origin on the audio clock, or NoTime
  quantizeBuffer,       \* sequence of entries, oldest first
  lastBufferGridIndex,
  lastSnapGridIndex,
  timers,               \* pending setTimeout callbacks, in firing order
  isPlaying,
  playbackIndex,
  loopMode,
  playText,             \* the text captured by the running playback
  cursor,               \* index shown by updatePlaybackCursor, or NoTime
  arpEnabled,
  arpPattern,
  arpOctaves,
  doubleTapEnabled,
  heldKeys,
  typingBoxFocused,
  voiceCount,           \* voices created so far (names the voice objects)
  enqCount,             \* entries pushed so far (names the buffer entries)
  lastBufDispatch,      \* name of the entry the tick dispatched last, or 0
  lastSnapFired,        \* the snap timer that fired last, if any, and when
  stoppedIds,           \* names of the voices stopVoice was called on
  downKeys,             \* keys with a keydown message and no keyup message since
  lim                   \* the bounds of this behaviour

vars ==
  << now, audioState, audioTime, isPoweredOn, settings, modifiers, voicePool,
     quantizeStartTime, quantizeBuffer, lastBufferGridIndex, lastSnapGridIndex,
     timers, isPlaying, playbackIndex, loopMode, playText, cursor,
     arpEnabled, arpPattern, arpOctaves, doubleTapEnabled, heldKeys,
     typingBoxFocused, voiceCount, enqCount, lastBufDispatch, lastSnapFired,
     stoppedIds, downKeys,
     lim >>

\* let sustainPedal = false, and nothing assigns it
sustainPedal == FALSE

(***************************************************************************)
(* Notes and options.  A note's frequency is kept as its distance from C4  *)
(* in semitones: f = C4_FREQ * 2^(frequency/12).  A field of `options'     *)
(* that may be undefined is a sequence of length 0 or 1.                   *)
(***************************************************************************)
Note(freq, oct, semi, harm) ==
  [frequency |-> freq, octave |-> oct, semitone |-> semi, isHarmony |-> harm]

NoNote == Note(0, 0, 0, FALSE)

Options(vel, dec, sus, idx) ==
  [velocity |-> vel, decay |-> dec, sustained |-> sus, textIndex |-> idx,
   isDoubleTap |-> FALSE, isHarmony |-> FALSE]

NoOptions == Options(<<>>, <<>>, FALSE, <<>>)

(***************************************************************************)
(* Pitch mapper                                                            *)
(***************************************************************************)
\* keyToNoteSpatial: <<>> for null, else <<note>>
keyToNoteSpatial(keyLower, scale, mods, st) ==
  IF SPATIAL_MAP(keyLower) = <<>> THEN <<>>
  ELSE
    LET position     == SPATIAL_MAP(keyLower)[1]
        octaveOffset == SPATIAL_MAP(keyLower)[2]
        degree       == position % Len(scale)
        degreeOctave == position \div Len(scale)
        octave       == st.baseOctave + octaveOffset + degreeOctave + st.transpose
                          + (IF mods.shift THEN 1 ELSE 0)
        semitone     == scale[degree + 1]
    IN  << Note(semitone + (octave - 4) * 12, octave, semitone, mods.alt) >>

\* the character code taken as a pitch class
hashSemitoneChromatic(code, scale) == code % 12

\* scale[charCode % scale.length]
hashSemitone(code, scale) == scale[(code % Len(scale)) + 1]

\* keyToNoteFrequency: always <<note>>
keyToNoteFrequency(keyLower, scale, mods, st) ==
  IF keyLower \notin Letters
  THEN
    LET semitone == hashSemitone(CharCode(keyLower), scale)
        octave   == st.baseOctave + st.transpose + (IF mods.shift THEN 1 ELSE 0)
    IN  << Note(semitone + (octave - 4) * 12, octave, semitone, mods.alt) >>
  ELSE
    LET tier     == LETTER_TIERS[keyLower][1]
        rawDeg   == LETTER_TIERS[keyLower][2]
        degree   == rawDeg % Len(scale)
        tierOct  == IF tier <= 1 THEN st.baseOctave
                    ELSE IF tier = 2 THEN st.baseOctave + 1
                    ELSE IF rawDeg = 0 THEN st.baseOctave - 1
                    ELSE st.baseOctave + 1
        octave   == tierOct + st.transpose + (IF mods.shift THEN 1 ELSE 0)
        semitone == scale[degree + 1]
    IN  << Note(semitone + (octave - 4) * 12, octave, semitone, mods.alt) >>

keyToNote(key, mods, st) ==
  IF st.layoutMode = "spatial"
  THEN keyToNoteSpatial(key, SCALES[st.scale], mods, st)
  ELSE keyToNoteFrequency(key, SCALES[st.scale], mods, st)

\* chordToNotes: the three tones of the chord of a digit
chordToNotes(chordKey, st) ==
  LET baseOctave == st.baseOctave + st.transpose
      semis      == ChordSemitones(chordKey)
  IN  [ i \in 1..Len(semis) |->
          Note(semis[i] + (baseOctave - 4) * 12,
               baseOctave + (semis[i] \div 12), semis[i] % 12, FALSE) ]

(***************************************************************************)
(* The engine record: the part of the state the note pipeline reads and    *)
(* writes.  A handler is an operator from engine record to engine record,  *)
(* so that a handler calling another is the composition of the two.        *)
(***************************************************************************)
Engine ==
  [ audio |-> audioState, atime |-> audioTime, mods |-> modifiers,
    pool |-> voicePool, vc |-> voiceCount, stopped |-> stoppedIds,
    buf |-> quantizeBuffer, ec |-> enqCount,
    snap |-> lastSnapGridIndex, bufIdx |-> lastBufferGridIndex,
    qst |-> quantizeStartTime, timers |-> timers,
    settings |-> settings ]

Commit(E) ==
  /\ audioState' = E.audio
  /\ audioTime' = E.atime
  /\ modifiers' = E.mods
  /\ voicePool' = E.pool
  /\ voiceCount' = E.vc
  /\ stoppedIds' = E.stopped
  /\ quantizeBuffer' = E.buf
  /\ enqCount' = E.ec
  /\ lastSnapGridIndex' = E.snap
  /\ lastBufferGridIndex' = E.bufIdx
  /\ quantizeStartTime' = E.qst
  /\ timers' = E.timers
  /\ settings' = E.settings

\* the counters and the timer list stay within the bounds of the model
WithinBounds(E) ==
  /\ E.vc <= lim.voices
  /\ E.ec <= lim.entries
  /\ Len(E.timers) <= lim.timers

(***************************************************************************)
(* Timers.  setTimeout callbacks run in the order of their due time, and   *)
(* in the order they were set when due together.                           *)
(***************************************************************************)
Timer(due, kind, note, opts, dt, i) ==
  [due |-> due, kind |-> kind, note |-> note, opts |-> opts,
   shouldDoubleTap |-> dt, i |-> i, at |-> now]

setTimeout(E, tm) ==
  LET before == SelectSeq(E.timers, LAMBDA x : x.due <= tm.due)
      after  == SelectSeq(E.timers, LAMBDA x : x.due > tm.due)
  IN  [E EXCEPT !.timers = before \o <<tm>> \o after]

(***************************************************************************)
(* Quantize grid                                                           *)
(***************************************************************************)
\* getGridDurationSeconds, in ms (exact for the tempos of the model)
getGridDurationSeconds(st) ==
  LET beatDuration == 60000 \div st.tempo
  IN  CASE st.quantizeGrid = "1/4"  -> beatDuration
        [] st.quantizeGrid = "1/8"  -> beatDuration \div 2
        [] st.quantizeGrid = "1/16" -> beatDuration \div 4
        [] OTHER -> beatDuration \div 2

\* the index of the cell after the current one
currentGridAhead(E) ==
  (E.atime - E.qst) \div getGridDurationSeconds(E.settings) + 1

\* Math.floor(elapsed / gridDuration) on the audio clock
currentGridOf(E) ==
  (E.atime - E.qst) \div getGridDurationSeconds(E.settings)

(***************************************************************************)
(* Voice pool                                                              *)
(***************************************************************************)
\* the scaled velocity without the ceiling
actualVelocityUnclamped(E, options) ==
  LET velocity == IF options.velocity = <<>> THEN (3 * VEL_ONE) \div 10
                  ELSE options.velocity[1]
  IN  IF E.mods.cmd THEN (velocity * 15) \div 100 ELSE (velocity * 60) \div 100

\* Math.min(0.4, modifiers.cmd ? velocity * 0.15 : velocity * 0.6)
actualVelocityOf(E, options) ==
  LET velocity == IF options.velocity = <<>> THEN (3 * VEL_ONE) \div 10
                  ELSE options.velocity[1]
  IN  Min((4 * VEL_ONE) \div 10,
          IF E.mods.cmd THEN (velocity * 15) \div 100 ELSE (velocity * 60) \div 100)

stopVoice(E, voice) == [E EXCEPT !.stopped = @ \cup {voice.id}]

\* a push that refuses the new voice when the pool is full
pushVoiceRefuse(E, voice) ==
  IF Len(E.pool) >= MAX_VOICES THEN stopVoice(E, voice)
  ELSE [E EXCEPT !.pool = Append(@, voice)]

\* a push that never evicts
pushVoiceKeepAll(E, voice) == [E EXCEPT !.pool = Append(@, voice)]

\* voicePool.push(voice); if (voicePool.length > MAX_VOICES) stopVoice(voicePool.shift())
pushVoice(E, voice) ==
  LET pushed == Append(E.pool, voice)
  IN  IF Len(pushed) > MAX_VOICES
      THEN stopVoice([E EXCEPT !.pool = Tail(pushed)], Head(pushed))
      ELSE [E EXCEPT !.pool = pushed]

\* an echo one octave above the note
harmonyNoteOctave(noteData) ==
  Note(noteData.frequency + 12, noteData.octave + 1, noteData.semitone, FALSE)

\* the note of the harmony echo: a perfect fifth above, no isHarmony field
harmonyNote(noteData) ==
  Note(noteData.frequency + 7, noteData.octave,
       (noteData.semitone + 7) % 12, FALSE)

RECURSIVE playNoteImmediate(_, _, _)
playNoteImmediate(E, noteData, options) ==
  LET actualVelocity == actualVelocityOf(E, options)
      voice == [ id |-> E.vc + 1, noteData |-> noteData, startTime |-> E.atime,
                 sustained |-> (options.sustained \/ sustainPedal),
                 velocity |-> actualVelocity ]
      E1 == pushVoice([E EXCEPT !.vc = @ + 1], voice)
  IN  IF noteData.isHarmony /\ ~options.isHarmony
      THEN playNoteImmediate(
             E1, harmonyNote(noteData),
             [options EXCEPT !.isHarmony = TRUE,
                             !.velocity = << (actualVelocity * 40) \div 100 >>])
      ELSE E1

(***************************************************************************)
(* playNote: immediate, snap or buffer                                     *)
(***************************************************************************)
\* a test that lets the used cell through
snapSkipsEarlier(currentGrid, lastSnap) == currentGrid < lastSnap

\* snap mode skips the trigger when this grid cell has been used
snapSkips(currentGrid, lastSnap) == currentGrid <= lastSnap

\* the boundary after the next one
gridTimeAfterNext(E) ==
  E.qst + (currentGridOf(E) + 2) * getGridDurationSeconds(E.settings)

\* quantizeStartTime + (currentGrid + 1) * gridDuration
nextGridTime(E) ==
  E.qst + (currentGridOf(E) + 1) * getGridDurationSeconds(E.settings)

\* an echo that is set twice
doubleTapEchoTwice(E, noteData, options, shouldDoubleTap) ==
  IF shouldDoubleTap
  THEN LET tm == Timer(now + DOUBLE_TAP_MS, "doubleTap", noteData,
                       [options EXCEPT !.isDoubleTap = TRUE], FALSE, 0)
       IN  setTimeout(setTimeout(E, tm), tm)
  ELSE E

\* the double-tap echo of a note that has just been played
doubleTapEcho(E, noteData, options, shouldDoubleTap) ==
  IF shouldDoubleTap
  THEN setTimeout(E, Timer(now + DOUBLE_TAP_MS, "doubleTap", noteData,
                           [options EXCEPT !.isDoubleTap = TRUE], FALSE, 0))
  ELSE E

\* reading the first element and leaving it in the array
shiftKeep(q) == [item |-> Head(q), rest |-> q]

\* taking the last element of an array instead of the first
shiftLast(q) == [item |-> q[Len(q)], rest |-> SubSeq(q, 1, Len(q) - 1)]

\* Array.prototype.shift: the first element, and the array without it
shift(q) == [item |-> Head(q), rest |-> Tail(q)]

bufferEntry(E, noteData, options) ==
  [ noteData |-> noteData, options |-> options,
    textIndex |-> options.textIndex, id |-> E.ec + 1 ]

\* a buffer branch that makes room by dropping the newest waiting entry
bufferPushDropNewest(E, noteData, options, shouldDoubleTap) ==
  LET room == IF Len(E.buf) >= MAX_BUFFER_SIZE
              THEN SubSeq(E.buf, 1, Len(E.buf) - 1) ELSE E.buf
  IN  [E EXCEPT !.buf = Append(room, bufferEntry(E, noteData, options)),
                !.ec = @ + 1]

\* a buffer branch that pushes the double-tap echo without looking at the
\* length of the buffer
bufferPushEchoAlways(E, noteData, options, shouldDoubleTap) ==
  LET room == IF Len(E.buf) >= MAX_BUFFER_SIZE THEN shift(E.buf).rest ELSE E.buf
      E1   == [E EXCEPT !.buf = Append(room, bufferEntry(E, noteData, options)),
                        !.ec = @ + 1]
  IN  IF shouldDoubleTap
      THEN [E1 EXCEPT
              !.buf = Append(@, bufferEntry(E1, noteData,
                                   [options EXCEPT !.isDoubleTap = TRUE])),
              !.ec = @ + 1]
      ELSE E1

\* the buffer branch of playNote
bufferPush(E, noteData, options, shouldDoubleTap) ==
  LET room == IF Len(E.buf) >= MAX_BUFFER_SIZE THEN shift(E.buf).rest ELSE E.buf
      E1   == [E EXCEPT !.buf = Append(room, bufferEntry(E, noteData, options)),
                        !.ec = @ + 1]
  IN  IF shouldDoubleTap /\ Len(E1.buf) < MAX_BUFFER_SIZE
      THEN [E1 EXCEPT
              !.buf = Append(@, bufferEntry(E1, noteData,
                                   [options EXCEPT !.isDoubleTap = TRUE])),
              !.ec = @ + 1]
      ELSE E1

\* the snap branch of playNote
snapSchedule(E, noteData, options, shouldDoubleTap) ==
  LET currentGrid  == currentGridOf(E)
      delay        == Max(0, nextGridTime(E) - E.atime)
      E1           == [E EXCEPT !.snap = currentGrid]
  IN  IF snapSkips(currentGrid, E.snap) THEN E
      ELSE IF delay > SNAP_NOW_MS
      THEN setTimeout(E1, Timer(now + delay, "snap", noteData, options,
                                shouldDoubleTap, 0))
      ELSE doubleTapEcho(playNoteImmediate(E1, noteData, options),
                         noteData, options, shouldDoubleTap)

\* a playNote that follows the quantize mode also when quantize is off
playNoteAlwaysQuantized(E, noteData, options) ==
  IF E.audio = "none" THEN E
  ELSE
    LET E0 == [E EXCEPT !.audio = "running"]
        shouldDoubleTap == doubleTapEnabled /\ ~options.isDoubleTap
    IN  IF E0.settings.quantizeMode = "snap"
        THEN snapSchedule(E0, noteData, options, shouldDoubleTap)
        ELSE bufferPush(E0, noteData, options, shouldDoubleTap)

playNote(E, noteData, options) ==
  IF E.audio = "none" THEN E
  ELSE
    LET E0 == [E EXCEPT !.audio = "running"]   \* audioContext.resume()
        shouldDoubleTap == doubleTapEnabled /\ ~options.isDoubleTap
    IN  IF ~E0.settings.quantize
        THEN doubleTapEcho(playNoteImmediate(E0, noteData, options),
                           noteData, options, shouldDoubleTap)
        ELSE IF E0.settings.quantizeMode = "snap"
        THEN snapSchedule(E0, noteData, options, shouldDoubleTap)
        ELSE bufferPush(E0, noteData, options, shouldDoubleTap)

(***************************************************************************)
(* Trigger expander: arpeggio and chord                                    *)
(***************************************************************************)
Reverse(q) == [ i \in 1..Len(q) |-> q[Len(q) + 1 - i] ]

\* getArpNotesForKey with the arpeggiator enabled
getArpNotesForKey(baseNote) ==
  [ n \in 1..(arpOctaves * Len(ARP_INTERVALS)) |->
      LET oct            == (n - 1) \div Len(ARP_INTERVALS)
          interval       == ARP_INTERVALS[((n - 1) % Len(ARP_INTERVALS)) + 1]
          totalSemitones == baseNote.semitone + interval + oct * 12
          semitone       == totalSemitones % 12
          octave         == baseNote.octave + (totalSemitones \div 12)
      IN  Note(semitone + (octave - 4) * 12, octave, semitone, FALSE) ]

\* every pattern plays the notes downwards
arpSequenceDown(arpNotes, perm) == Reverse(arpNotes)

\* the order the pattern gives; perm stands for the outcome of the random sort
arpSequence(arpNotes, perm) ==
  CASE arpPattern = "up"     -> arpNotes
    [] arpPattern = "down"   -> Reverse(arpNotes)
    [] arpPattern = "updown" ->
         arpNotes \o Reverse(SubSeq(arpNotes, 2, Len(arpNotes) - 1))
    [] arpPattern = "random" -> [ i \in 1..Len(arpNotes) |-> arpNotes[perm[i]] ]
    [] OTHER                 -> arpNotes

RECURSIVE setTimeouts(_, _, _)
\* one setTimeout per element of tms, in order
setTimeouts(E, tms, k) ==
  IF k > Len(tms) THEN E ELSE setTimeouts(setTimeout(E, tms[k]), tms, k + 1)

playArpeggio(E, baseNote, options, perm) ==
  IF ~arpEnabled THEN playNote(E, baseNote, options)
  ELSE
    LET noteSequence == arpSequence(getArpNotesForKey(baseNote), perm)
        arpDelay     == (60000 \div E.settings.tempo) \div 4
    IN  setTimeouts(E,
          [ n \in 1..Len(noteSequence) |->
              Timer(now + (n - 1) * arpDelay, "arp", noteSequence[n], options,
                    FALSE, n - 1) ], 1)

playChord(E, chordKey) ==
  LET notes == chordToNotes(chordKey, E.settings)
  IN  setTimeouts(E,
        [ n \in 1..Len(notes) |->
            Timer(now + (n - 1) * CHORD_STAGGER_MS, "chord", notes[n],
                  NoOptions, FALSE, n - 1) ], 1)

playSpacebarSound(E) ==
  IF E.audio = "none" THEN E
  ELSE playNote([E EXCEPT !.audio = "running"], Note(-5, 3, 7, FALSE),
                Options(<< VEL_ONE \div 4 >>, << 400 >>, FALSE, <<>>))

\* a stop-all that forgets the quantize buffer
stopAllVoicesKeepBuffer(E) ==
  [E EXCEPT !.stopped = @ \cup { E.pool[i].id : i \in 1..Len(E.pool) },
            !.pool = <<>>]

stopAllVoices(E) ==
  [E EXCEPT !.stopped = @ \cup { E.pool[i].id : i \in 1..Len(E.pool) },
            !.pool = <<>>,
            !.buf = <<>>]

\* initAudio, run to the end of its continuation
initAudio(E) ==
  IF E.audio # "none" THEN E
  ELSE [E EXCEPT !.audio = "running", !.atime = 0, !.pool = <<>>, !.qst = 0,
                 !.bufIdx = -1, !.snap = -1]

(***************************************************************************)
(* handleKeyDown.  rnd holds what Math.random decides: perm for the random *)
(* arpeggio, degree and octave for the backquote note.                     *)
(***************************************************************************)
ScalePresetOf(key) ==
  CASE key = "f1" -> "pentatonic_major" [] key = "f2" -> "major"
    [] key = "f3" -> "minor" [] key = "f4" -> "blues" [] key = "f5" -> "dorian"

WaveTypeOf(key) ==
  CASE key = "f6" -> "sine" [] key = "f7" -> "triangle"
    [] key = "f8" -> "sawtooth" [] key = "f9" -> "square"

\* keys are handled whatever the power state
keysNeverIgnored(on) == FALSE

\* if (!isPoweredOn) return
keysIgnored(on) == ~on

\* the octave one above, without the upper limit
octaveUpUnbounded(baseOctave) == baseOctave + 1

\* Math.min(settings.baseOctave + 1, 7)
octaveUp(baseOctave) == Min(baseOctave + 1, 7)

\* Math.max(settings.baseOctave - 1, 1)
octaveDown(baseOctave) == Max(baseOctave - 1, 1)

handleKeyDown(E, key, mods, fromTypingBox, textIndex, rnd) ==
  IF keysIgnored(isPoweredOn) THEN E
  ELSE IF E.audio = "none" THEN initAudio(E)
  ELSE
    CASE key = "space" -> playSpacebarSound(E)
      [] key = "backspace" ->
           IF ~fromTypingBox /\ Len(E.pool) > 0
           THEN stopVoice([E EXCEPT !.pool = SubSeq(@, 1, Len(@) - 1)],
                          E.pool[Len(E.pool)])
           ELSE E
      [] key \in {"delete", "escape"} ->
           [stopAllVoices(E) EXCEPT !.settings.transpose = 0]
      [] key = "enter" ->
           playNote(E, Note(-24, 2, 0, FALSE),
                    Options(<< (7 * VEL_ONE) \div 10 >>, << 1000 >>, FALSE, <<>>))
      [] key \in {"tab", "up", "down", "left", "right"} -> E
      [] key = "backquote" ->
           LET scale          == SCALES[E.settings.scale]
               randomSemitone == scale[rnd.degree + 1]
               randomOctave   == E.settings.baseOctave + rnd.octave
           IN  playNote(E, Note(randomSemitone + (randomOctave - 4) * 12,
                                randomOctave, randomSemitone, FALSE), NoOptions)
      [] key = "plus" ->
           [E EXCEPT !.settings.baseOctave = octaveUp(@)]
      [] key = "minus" ->
           [E EXCEPT !.settings.baseOctave = octaveDown(@)]
      [] key \in {"f1", "f2", "f3", "f4", "f5"} ->
           [E EXCEPT !.settings.scale = ScalePresetOf(key)]
      [] key \in {"f6", "f7", "f8", "f9"} ->
           [E EXCEPT !.settings.waveType = WaveTypeOf(key)]
      [] key \in Digits -> playChord(E, key)
      [] OTHER ->
           LET noteData == keyToNote(key, mods, E.settings)
               options  == Options(<<>>, <<>>, sustainPedal, textIndex)
           IN  IF noteData = <<>> THEN E
               ELSE IF arpEnabled
               THEN playArpeggio(E, noteData[1], options, rnd.perm)
               ELSE playNote(E, noteData[1], options)

\* what Math.random may decide in handleKeyDown for this key
RandomChoices(key) ==
  LET n == arpOctaves * Len(ARP_INTERVALS)
  IN  { [perm |-> p, degree |-> d, octave |-> o] :
          p \in (IF arpEnabled /\ arpPattern = "random"
                 THEN Permutations(1..n) ELSE { [ i \in 1..n |-> i ] }),
          d \in (IF key = "backquote" THEN 0..(Len(SCALES[settings.scale]) - 1) ELSE {0}),
          o \in (IF key = "backquote" THEN 0..1 ELSE {0}) }

(***************************************************************************)
(* Actions: one per handler                                                *)
(***************************************************************************)
playbackVars == << isPlaying, playbackIndex, loopMode, playText >>
featureVars  == << arpEnabled, arpPattern, arpOctaves, doubleTapEnabled >>
engineVars   == << audioState, audioTime, modifiers, voicePool, voiceCount,
                   stoppedIds, quantizeBuffer, enqCount, lastSnapGridIndex,
                   lastBufferGridIndex, quantizeStartTime, timers,
                   settings >>

\* the head of the timer list is due
TimerDue(kind) ==
  /\ timers # <<>>
  /\ Head(timers).due <= now
  /\ Head(timers).kind = kind

\* the engine record with the due timer taken off the list
Fired == [Engine EXCEPT !.timers = Tail(@)]

\* keydown in the typing box; `repeat' is the event's repeat flag
TypingBoxKeyEvent(repeat, key, mods) ==
  /\ typingBoxFocused
  /\ \E rnd \in RandomChoices(key) :
       LET E0 == [Engine EXCEPT !.mods.shift = mods.shift, !.mods.ctrl = mods.ctrl,
                                !.mods.alt = mods.alt, !.mods.cmd = mods.cmd]
           E1 == IF repeat THEN Engine
                 ELSE handleKeyDown(E0, key, E0.mods, TRUE, <<>>, rnd)
       IN  WithinBounds(E1) /\ Commit(E1)
  /\ UNCHANGED << lim, downKeys >>
  /\ UNCHANGED << now, isPoweredOn, cursor, lastBufDispatch, lastSnapFired, heldKeys,
                  typingBoxFocused, playbackVars, featureVars >>

\* first keydown of a key press in the typing box
TypingBoxKeyDown(key, mods) == TypingBoxKeyEvent(FALSE, key, mods)

\* a keydown message of the key event source
WsKeyDown(key, mods) ==
  /\ IF typingBoxFocused \/ key \in heldKeys
     THEN UNCHANGED << engineVars, heldKeys >>
     ELSE /\ heldKeys' = heldKeys \cup {key}
          /\ \E rnd \in RandomChoices(key) :
               LET E0 == [Engine EXCEPT !.mods = mods]
                   E1 == handleKeyDown(E0, key, E0.mods, FALSE, <<>>, rnd)
               IN  WithinBounds(E1) /\ Commit(E1)
  /\ downKeys' = downKeys \cup {key}
  /\ UNCHANGED lim
  /\ UNCHANGED << now, isPoweredOn, cursor, lastBufDispatch, lastSnapFired, typingBoxFocused,
                  playbackVars, featureVars >>

\* a keyup message of the key event source
WsKeyUp(key) ==
  /\ heldKeys' = IF typingBoxFocused THEN heldKeys ELSE heldKeys \ {key}
  /\ downKeys' = downKeys \ {key}
  /\ UNCHANGED lim
  /\ UNCHANGED << now, isPoweredOn, cursor, lastBufDispatch, lastSnapFired, typingBoxFocused,
                  engineVars, playbackVars, featureVars >>

\* a callback that does not look at the grid cell
TickIdleUnlessWaiting(t) ==
  \/ ~settings.quantize
  \/ settings.quantizeMode # "buffer"
  \/ quantizeBuffer = <<>>
  \/ audioState = "none"

\* the interval callback run at audio time t returns before it plays a note
TickIdleAt(t) ==
  \/ ~settings.quantize
  \/ settings.quantizeMode # "buffer"
  \/ quantizeBuffer = <<>>
  \/ audioState = "none"
  \/ (t - quantizeStartTime) \div getGridDurationSeconds(settings)
       <= lastBufferGridIndex

\* the setInterval callback of startQuantizeInterval, when it plays a note
\* (a callback that returns at once changes nothing and is no step)
QuantizeTick ==
  /\ IF TickIdleAt(audioTime) THEN FALSE ELSE TRUE
  /\ LET item == shift(quantizeBuffer).item
         E1   == playNoteImmediate(
                   [Engine EXCEPT !.bufIdx = currentGridOf(Engine),
                                  !.buf = shift(@).rest],
                   item.noteData, item.options)
     IN  /\ WithinBounds(E1)
         /\ Commit(E1)
         /\ lastBufDispatch' = item.id
         /\ cursor' = IF item.textIndex # <<>> THEN item.textIndex[1] ELSE cursor
         /\ typingBoxFocused' =
              IF item.textIndex # <<>> THEN TRUE ELSE typingBoxFocused
  /\ UNCHANGED << lim, downKeys >>
  /\ UNCHANGED << now, isPoweredOn, heldKeys, lastSnapFired, playbackVars, featureVars >>

\* the snap timer of playNote
FireSnapTimer ==
  /\ TimerDue("snap")
  /\ LET tm == Head(timers)
         E1 == doubleTapEcho(playNoteImmediate(Fired, tm.note, tm.opts),
                             tm.note, tm.opts, tm.shouldDoubleTap)
     IN  /\ WithinBounds(E1)
         /\ Commit(E1)
         /\ lastSnapFired' = << [at |-> tm.at, due |-> tm.due, start |-> audioTime] >>
  /\ UNCHANGED << lim, downKeys >>
  /\ UNCHANGED << now, isPoweredOn, cursor, lastBufDispatch, heldKeys,
                  typingBoxFocused, playbackVars, featureVars >>

\* the double-tap timer of playNote
FireDoubleTapTimer ==
  /\ TimerDue("doubleTap")
  /\ LET tm == Head(timers)
         E1 == playNoteImmediate(Fired, tm.note, tm.opts)
     IN  WithinBounds(E1) /\ Commit(E1)
  /\ UNCHANGED << lim, downKeys >>
  /\ UNCHANGED << now, isPoweredOn, cursor, lastBufDispatch, lastSnapFired, heldKeys,
                  typingBoxFocused, playbackVars, featureVars >>

\* the per-note timer of playArpeggio
FireArpTimer ==
  /\ TimerDue("arp")
  /\ LET tm == Head(timers)
         E1 == playNoteImmediate(Fired, tm.note,
                 [tm.opts EXCEPT
                    !.velocity = << VEL_ONE \div 4 - tm.i * (VEL_ONE \div 50) >>,
                    !.decay = << (settings.decayTime * 60) \div 100 >>])
     IN  WithinBounds(E1) /\ Commit(E1)
  /\ UNCHANGED << lim, downKeys >>
  /\ UNCHANGED << now, isPoweredOn, cursor, lastBufDispatch, lastSnapFired, heldKeys,
                  typingBoxFocused, playbackVars, featureVars >>

\* the per-tone timer of playChord
FireChordTimer ==
  /\ TimerDue("chord")
  /\ LET tm == Head(timers)
         E1 == playNote(Fired, tm.note,
                        Options(<< VEL_ONE \div 5 >>, <<>>, FALSE, <<>>))
     IN  WithinBounds(E1) /\ Commit(E1)
  /\ UNCHANGED << lim, downKeys >>
  /\ UNCHANGED << now, isPoweredOn, cursor, lastBufDispatch, lastSnapFired, heldKeys,
                  typingBoxFocused, playbackVars, featureVars >>

\* d ms can pass without any event: the handlers of this instant have run
\* (the timers that are due, and the interval callback), no timer falls due
\* before the end of the d ms, and the interval callbacks that run before the
\* end of the d ms return at once
CanAdvance(d) ==
  /\ now + d <= lim.slots * TICK_MS
  /\ IF timers = <<>> THEN TRUE
     ELSE Head(timers).due > now /\ Head(timers).due >= now + d
  /\ \A k \in 0..((d \div TICK_MS) - 1) :
       TickIdleAt(IF audioState = "running"
                  THEN audioTime + k * TICK_MS ELSE audioTime)

\* the instants the clock can advance to: those at which the environment
\* acts, and those at which a timer falls due
NextInstants ==
  { t \in lim.instants \cup { timers[i].due : i \in 1..Len(timers) } : t > now }

Advance(d) ==
  /\ IF CanAdvance(d) THEN TRUE ELSE FALSE
  /\ now' = now + d
  /\ audioTime' = IF audioState = "running" THEN audioTime + d ELSE audioTime
  /\ UNCHANGED << audioState, isPoweredOn, settings, modifiers, voicePool,
                  quantizeStartTime, quantizeBuffer, lastBufferGridIndex,
                  lastSnapGridIndex, timers, cursor, heldKeys,
                  typingBoxFocused, voiceCount, enqCount, lastBufDispatch, lastSnapFired,
                  stoppedIds, playbackVars, featureVars, lim, downKeys >>

(***************************************************************************)
(* Playback of the typing box                                              *)
(***************************************************************************)
\* the playback record: the engine record and the playback state
Playback ==
  [ E |-> Engine, isPlaying |-> isPlaying, playbackIndex |-> playbackIndex,
    cursor |-> cursor, focused |-> typingBoxFocused ]

CommitPlayback(P) ==
  /\ Commit(P.E)
  /\ isPlaying' = P.isPlaying
  /\ playbackIndex' = P.playbackIndex
  /\ cursor' = P.cursor
  /\ typingBoxFocused' = P.focused

\* a clearTimeout that cancels nothing
clearPlaybackTimeoutNone(tms) == tms

\* clearTimeout(playbackTimeoutId)
clearPlaybackTimeout(tms) == SelectSeq(tms, LAMBDA x : x.kind # "playback")

\* the timer of the next character is left pending
stopPlaybackKeepTimer(P) ==
  [P EXCEPT !.isPlaying = FALSE, !.playbackIndex = 0, !.cursor = NoTime]

stopPlayback(P) ==
  [P EXCEPT !.isPlaying = FALSE,
            !.E.timers = clearPlaybackTimeout(@),
            !.playbackIndex = 0,
            !.cursor = NoTime]

\* updatePlaybackCursor: shows the index and focuses the typing box
updatePlaybackCursor(P, index) == [P EXCEPT !.cursor = index, !.focused = TRUE]

\* the key playNextCharacter makes of a character
keyOfChar(char) ==
  IF char = " " THEN "space" ELSE IF char = "\n" THEN "enter" ELSE char

\* a delay that grows with the speed
playbackDelayScaled(st) == (BASE_DELAY_MS * st.playbackSpeed) \div 100

\* baseDelay / settings.playbackSpeed (the speed is kept in percent)
playbackDelay(st) == (BASE_DELAY_MS * 100) \div st.playbackSpeed

\* the end of the text stops playback whatever the loop mode
stopsAtEndAlways(P, text) == P.playbackIndex >= Len(text)

\* playbackIndex >= text.length with loopMode off
stopsAtEnd(P, text) == P.playbackIndex >= Len(text) /\ ~loopMode

playNextCharacter(P, text, rnd) ==
  IF ~P.isPlaying THEN stopPlayback(P)
  ELSE IF stopsAtEnd(P, text) THEN stopPlayback(P)
  ELSE
    LET P0 == IF P.playbackIndex >= Len(text)
              THEN updatePlaybackCursor([P EXCEPT !.playbackIndex = 0], 0)
              ELSE P
        currentIndex == P0.playbackIndex
        char == text[currentIndex + 1]
        P1 == [P0 EXCEPT
                 !.playbackIndex = @ + 1,
                 !.E = handleKeyDown(@, keyOfChar(char), @.mods, TRUE,
                                     << currentIndex >>, rnd)]
        P2 == updatePlaybackCursor(P1, P1.playbackIndex)
        delay == playbackDelay(P2.E.settings)
    IN  [P2 EXCEPT !.E = setTimeout(@, Timer(now + delay, "playback", NoNote,
                                             NoOptions, FALSE, 0))]

\* isPlaying is set before the text is looked at
startPlaybackFlagFirst(P, text, rnd) ==
  IF P.isPlaying THEN P
  ELSE LET P0 == [P EXCEPT !.isPlaying = TRUE, !.playbackIndex = 0]
       IN  IF Len(text) = 0 THEN P0
           ELSE playNextCharacter(updatePlaybackCursor(P0, 0), text, rnd)

startPlayback(P, text, rnd) ==
  IF P.isPlaying \/ Len(text) = 0 THEN P
  ELSE LET P0 == updatePlaybackCursor(
                   [P EXCEPT !.isPlaying = TRUE, !.playbackIndex = 0], 0)
       IN  playNextCharacter(P0, text, rnd)

\* click on Play with `text' in the typing box
StartPlayback(text) ==
  /\ playText' = IF isPlaying \/ Len(text) = 0 THEN playText ELSE text
  /\ \E rnd \in RandomChoices(IF Len(text) = 0 THEN ""
                               ELSE keyOfChar(text[1])) :
       \E P1 \in { startPlayback(Playback, text, rnd) } :
         WithinBounds(P1.E) /\ CommitPlayback(P1)
  /\ UNCHANGED << lim, downKeys >>
  /\ UNCHANGED << now, isPoweredOn, lastBufDispatch, lastSnapFired, heldKeys, loopMode,
                  featureVars >>

\* click on Stop
StopPlayback ==
  /\ CommitPlayback(stopPlayback(Playback))
  /\ UNCHANGED << lim, downKeys >>
  /\ UNCHANGED << now, isPoweredOn, lastBufDispatch, lastSnapFired, heldKeys, loopMode,
                  playText, featureVars >>

\* the timer of playNextCharacter
PlaybackTick ==
  /\ TimerDue("playback")
  /\ \E rnd \in RandomChoices(
                  IF isPlaying /\ playbackIndex < Len(playText)
                  THEN keyOfChar(playText[playbackIndex + 1])
                  ELSE IF isPlaying /\ loopMode /\ Len(playText) > 0
                  THEN keyOfChar(playText[1]) ELSE "") :
       \E P1 \in { playNextCharacter([Playback EXCEPT !.E = Fired],
                                      playText, rnd) } :
         WithinBounds(P1.E) /\ CommitPlayback(P1)
  /\ UNCHANGED << lim, downKeys >>
  /\ UNCHANGED << now, isPoweredOn, lastBufDispatch, lastSnapFired, heldKeys, loopMode,
                  playText, featureVars >>

\* click on Loop
ToggleLoop ==
  /\ loopMode' = ~loopMode
  /\ UNCHANGED << lim, downKeys >>
  /\ UNCHANGED << now, isPoweredOn, cursor, lastBufDispatch, lastSnapFired, heldKeys,
                  typingBoxFocused, engineVars, isPlaying, playbackIndex,
                  playText, featureVars >>

(***************************************************************************)
(* Controls                                                                *)
(***************************************************************************)
\* change of the quantize checkbox
SetQuantize(checked) ==
  /\ LET E0 == [Engine EXCEPT !.settings.quantize = checked]
         E1 == IF checked /\ E0.audio # "none"
               THEN [E0 EXCEPT !.qst = E0.atime, !.bufIdx = -1, !.snap = -1,
                               !.buf = <<>>]
               ELSE E0
     IN  Commit(E1)
  /\ UNCHANGED << lim, downKeys >>
  /\ UNCHANGED << now, isPoweredOn, cursor, lastBufDispatch, lastSnapFired, heldKeys,
                  typingBoxFocused, playbackVars, featureVars >>

\* change of a select or slider that only stores its value in `settings'
SetSetting(name, value) ==
  /\ settings' = [settings EXCEPT ![name] = value]
  /\ UNCHANGED << lim, downKeys >>
  /\ UNCHANGED << now, audioState, audioTime, isPoweredOn, modifiers, voicePool,
                  quantizeStartTime, quantizeBuffer, lastBufferGridIndex,
                  lastSnapGridIndex, timers, cursor, heldKeys,
                  typingBoxFocused, voiceCount, enqCount, lastBufDispatch, lastSnapFired,
                  stoppedIds, playbackVars, featureVars >>

SetQuantizeMode(mode) == SetSetting("quantizeMode", mode)
SetTempo(tempo) == SetSetting("tempo", tempo)
SetGrid(grid) == SetSetting("quantizeGrid", grid)

\* change of the double-tap checkbox
SetDoubleTap(checked) ==
  /\ doubleTapEnabled' = checked
  /\ UNCHANGED << lim, downKeys >>
  /\ UNCHANGED << now, isPoweredOn, cursor, lastBufDispatch, lastSnapFired, heldKeys,
                  typingBoxFocused, engineVars, playbackVars, arpEnabled,
                  arpPattern, arpOctaves >>

\* change of the arpeggiator checkbox, pattern or octaves
SetArp(enabled, pattern, octaves) ==
  /\ arpEnabled' = enabled
  /\ arpPattern' = pattern
  /\ arpOctaves' = octaves
  /\ UNCHANGED << lim, downKeys >>
  /\ UNCHANGED << now, isPoweredOn, cursor, lastBufDispatch, lastSnapFired, heldKeys,
                  typingBoxFocused, engineVars, playbackVars, doubleTapEnabled >>

\* focus and blur of the typing box
SetFocus(focused) ==
  /\ typingBoxFocused' = focused
  /\ UNCHANGED << lim, downKeys >>
  /\ UNCHANGED << now, isPoweredOn, cursor, lastBufDispatch, lastSnapFired, heldKeys,
                  engineVars, playbackVars, featureVars >>

\* first click on the page, click on the typing box, or the socket opening
ClickInitAudio ==
  /\ Commit(initAudio(Engine))
  /\ UNCHANGED << lim, downKeys >>
  /\ UNCHANGED << now, isPoweredOn, cursor, lastBufDispatch, lastSnapFired, heldKeys,
                  typingBoxFocused, playbackVars, featureVars >>

\* click on the power button
PowerButton ==
  /\ isPoweredOn' = ~isPoweredOn
  /\ IF ~isPoweredOn
     THEN /\ Commit([Engine EXCEPT
                       !.audio = IF @ = "suspended" THEN "running" ELSE @])
          /\ UNCHANGED << isPlaying, playbackIndex, cursor, typingBoxFocused >>
     ELSE LET P1 == stopPlayback(Playback)
          IN  CommitPlayback(
                [P1 EXCEPT !.E.audio = IF @ = "running" THEN "suspended" ELSE @,
                           !.E.buf = <<>>])
  /\ UNCHANGED << lim, downKeys >>
  /\ UNCHANGED << now, lastBufDispatch, lastSnapFired, heldKeys, loopMode, playText,
                  featureVars >>

(***************************************************************************)
(* Initial states                                                          *)
(***************************************************************************)
NoModifiers ==
  [shift |-> FALSE, ctrl |-> FALSE, alt |-> FALSE, cmd |-> FALSE,
   caps_lock |-> FALSE]

Limits(slots, voices, entries, tms, instants) ==
  [slots |-> slots, voices |-> voices, entries |-> entries, timers |-> tms,
   instants |-> instants]

DefaultSettings ==
  [ layoutMode |-> "frequency", scale |-> "pentatonic_major",
    waveType |-> "sine", baseOctave |-> 4, transpose |-> 0,
    decayTime |-> 600, quantize |-> FALSE, quantizeMode |-> "snap",
    tempo |-> 120, quantizeGrid |-> "1/8", playbackSpeed |-> 100 ]

\* the state after the script has loaded, with the controls set to `st' and
\* the double-tap box to `dtap'; if `started', initAudio has run at time 0,
\* from a click on the typing box (`focused') or from the page body or the
\* opening of the key event source (not `focused')
InitState(started, focused, st, dtap) ==
  /\ now = 0
  /\ audioState = IF started THEN "running" ELSE "none"
  /\ audioTime = 0
  /\ isPoweredOn = TRUE
  /\ settings = st
  /\ modifiers = NoModifiers
  /\ voicePool = <<>>
  /\ quantizeStartTime = IF started THEN 0 ELSE NoTime
  /\ quantizeBuffer = <<>>
  /\ lastBufferGridIndex = -1
  /\ lastSnapGridIndex = -1
  /\ timers = <<>>
  /\ isPlaying = FALSE
  /\ playbackIndex = 0
  /\ loopMode = FALSE
  /\ playText = <<>>
  /\ cursor = NoTime
  /\ arpEnabled = FALSE
  /\ arpPattern = "up"
  /\ arpOctaves = 1
  /\ doubleTapEnabled = dtap
  /\ heldKeys = {}
  /\ typingBoxFocused = focused
  /\ voiceCount = 0
  /\ enqCount = 0
  /\ lastBufDispatch = 0
  /\ lastSnapFired = <<>>
  /\ stoppedIds = {}
  /\ downKeys = {}

InitCold == InitState(FALSE, FALSE, DefaultSettings, FALSE)

\* the quantize controls set to the given values
QuantizeSettings(on, mode, tempo, grid) ==
  [DefaultSettings EXCEPT !.quantize = on, !.quantizeMode = mode,
                          !.tempo = tempo, !.quantizeGrid = grid]

ModsPlain == NoModifiers
ModsAlt == [NoModifiers EXCEPT !.alt = TRUE]
ModsShift == [NoModifiers EXCEPT !.shift = TRUE]
ModsCmd == [NoModifiers EXCEPT !.cmd = TRUE]

(***************************************************************************)
(* Voice pool specification.  The quantize controls and the double-tap box *)
(* are set before the first key; then letters with and without the harmony *)
(* modifier, escape and backspace arrive at any of the instants of the     *)
(* behaviour.                                                              *)
(***************************************************************************)
\* a behaviour's quantize switch and mode, double-tap box, focus of the typing
\* box, instants of the environment and last clock slot
PoolScenarios ==
  { << FALSE, "snap", FALSE, TRUE, {80}, PoolSlots \div 3 >>,
    << FALSE, "snap", TRUE, TRUE, {80}, PoolSlots \div 3 >>,
    << FALSE, "snap", FALSE, FALSE, {80}, PoolSlots \div 3 >>,
    << TRUE, "snap", FALSE, TRUE, {100, 200, 300}, PoolSlots >>,
    << TRUE, "buffer", FALSE, TRUE, {100, 200, 300}, PoolSlots >>,
    << TRUE, "buffer", TRUE, TRUE, {100, 200, 300}, PoolSlots >> }

InitPool ==
  \E sc \in PoolScenarios :
    /\ InitState(TRUE, sc[4], QuantizeSettings(sc[1], sc[2], 150, "1/16"),
                 sc[3])
    /\ lim = Limits(sc[6], PoolVoices, PoolEntries, PoolTimers, sc[5])

NextPool ==
  \/ \E m \in {ModsPlain, ModsAlt} : TypingBoxKeyDown("a", m)
  \/ TypingBoxKeyDown("escape", ModsPlain)
  \/ \E key \in {"a", "backspace"} : WsKeyDown(key, ModsPlain)
  \/ \E key \in {"a", "backspace"} : WsKeyUp(key)
  \/ QuantizeTick
  \/ FireSnapTimer
  \/ FireDoubleTapTimer
  \/ \E t \in NextInstants : Advance(t - now)

SpecPool == InitPool /\ [][NextPool]_vars

\* C1: after every completed engine operation (key trigger, buffer tick,
\* deferred timer callback, backspace, stop-all) the voice pool holds at most
\* MAX_VOICES voices, the harmony echo of a dispatch included.
C1_PoolBounded == Len(voicePool) <= MAX_VOICES

\* the harmony echo of a dispatch was the push that overflowed the pool: the
\* pool is full, its last two voices are a note and its echo a fifth above,
\* and the oldest voice has been evicted and stopped
C1_Witness ==
  /\ Len(voicePool) = MAX_VOICES
  /\ voiceCount = MAX_VOICES + 1
  /\ voicePool[1].id = 2
  /\ 1 \in stoppedIds
  /\ voicePool[MAX_VOICES].noteData.frequency
       = voicePool[MAX_VOICES - 1].noteData.frequency + 7
  /\ voicePool[MAX_VOICES - 1].noteData.isHarmony

(***************************************************************************)
(* Quantize buffer specification.  Buffer mode at tempo 150, grid 1/16     *)
(* (cells of 100 ms), with and without double-tap; letters, escape and the *)
(* quantize switch arrive at the cell boundaries.                          *)
(***************************************************************************)
InitBuffer ==
  \E dtap \in BOOLEAN :
    /\ InitState(TRUE, TRUE, QuantizeSettings(TRUE, "buffer", 150, "1/16"), dtap)
    /\ lim = Limits(BufSlots, BufVoices, BufEntries, BufTimers, {100})

NextBuffer ==
  \/ TypingBoxKeyDown("a", ModsPlain)
  \/ TypingBoxKeyDown("escape", ModsPlain)
  \/ \E checked \in BOOLEAN : SetQuantize(checked)
  \/ QuantizeTick
  \/ \E t \in NextInstants : Advance(t - now)

SpecBuffer == InitBuffer /\ [][NextBuffer]_vars

\* C2: after any sequence of buffer-mode triggers, ticks, re-arms and stop-all
\* calls the quantize buffer holds at most MAX_BUFFER_SIZE entries, also when
\* double-tap makes every trigger enqueue two entries.
C2_BufferBounded == Len(quantizeBuffer) <= MAX_BUFFER_SIZE

\* a double-tap trigger met a full buffer: the oldest entry was dropped for
\* the new one (nothing has been dispatched) and the echo was left out
C2_Witness ==
  /\ doubleTapEnabled
  /\ Len(quantizeBuffer) = MAX_BUFFER_SIZE
  /\ enqCount = MAX_BUFFER_SIZE + 1
  /\ lastBufDispatch = 0
  /\ Head(quantizeBuffer).id = 2
  /\ ~quantizeBuffer[MAX_BUFFER_SIZE].options.isDoubleTap

\* C3: buffer entries are dispatched in the order of their enqueueing: an
\* entry waiting in the buffer was enqueued after every entry behind it
\* in the order and after the entry the tick dispatched last, so the tick
\* never dispatches an entry before an older one, whatever triggers, ticks
\* and overflow evictions came in between.
C3_BufferFifo ==
  /\ \A i \in 1..Len(quantizeBuffer) : quantizeBuffer[i].id > lastBufDispatch
  /\ \A i \in 1..(Len(quantizeBuffer) - 1) :
       quantizeBuffer[i].id < quantizeBuffer[i + 1].id

\* the tick has dispatched two entries in two cells after an overflow had
\* dropped the oldest entries, and more entries wait
C3_Witness ==
  /\ lastBufferGridIndex = 1
  /\ lastBufDispatch > 2
  /\ enqCount > MAX_BUFFER_SIZE
  /\ Len(quantizeBuffer) > 1
  /\ Len(voicePool) = 2

(***************************************************************************)
(* Snap specification.  Snap mode at tempo 120, grid 1/8 (cells of 250     *)
(* ms), with and without double-tap; letters with and without the harmony  *)
(* modifier and escape arrive 100 ms after the origin, 10 ms before the    *)
(* first and the second boundary, and whenever a timer is due.             *)
(***************************************************************************)
InitSnap ==
  \E dtap \in BOOLEAN :
    /\ InitState(TRUE, TRUE, QuantizeSettings(TRUE, "snap", 120, "1/8"), dtap)
    /\ lim = Limits(SnapSlots, SnapVoices, 0, SnapTimers, {100, 240, 490})

LetterKeyDown == \E m \in {ModsPlain, ModsAlt} : TypingBoxKeyDown("a", m)

NextSnap ==
  \/ LetterKeyDown
  \/ TypingBoxKeyDown("escape", ModsPlain)
  \/ FireSnapTimer
  \/ FireDoubleTapTimer
  \/ \E t \in NextInstants : Advance(t - now)

SpecSnap == InitSnap /\ [][NextSnap]_vars

\* the current grid cell has been used by an accepted snap trigger
InUsedCell ==
  /\ audioState = "running"
  /\ settings.quantize
  /\ settings.quantizeMode = "snap"
  /\ (audioTime - quantizeStartTime) \div getGridDurationSeconds(settings)
       = lastSnapGridIndex

\* C4: snap-mode idempotence: once a trigger has been accepted in grid cell
\* k, a further letter key handled while the current cell is still k
\* schedules and dispatches nothing and leaves the voice pool, the quantize
\* buffer and lastSnapGridIndex unchanged.
C4_SnapIdempotent ==
  [][ (InUsedCell /\ LetterKeyDown)
        => UNCHANGED << voicePool, voiceCount, quantizeBuffer, enqCount,
                        lastSnapGridIndex, timers >> ]_vars

\* a plain letter was accepted in cell 0 and waits on its timer; a later
\* letter with the harmony modifier, in the same cell, left only the
\* modifier behind
C4_Witness ==
  /\ InUsedCell
  /\ lastSnapGridIndex = 0
  /\ now = 240
  /\ modifiers.alt
  /\ Len(timers) = 1
  /\ timers[1].kind = "snap"
  /\ timers[1].at = 100
  /\ ~timers[1].note.isHarmony
  /\ voicePool = <<>>

\* C5: in snap mode at most one voice is created at an instant inside any
\* one grid cell, whatever letters (with or without double-tap and harmony)
\* are triggered: no two voices of the pool started in the same cell.
C5_OneVoicePerCell ==
  \A i, j \in 1..Len(voicePool) :
    i # j =>
      (voicePool[i].startTime - quantizeStartTime)
          \div getGridDurationSeconds(settings)
        # (voicePool[j].startTime - quantizeStartTime)
          \div getGridDurationSeconds(settings)

\* C6: a snap trigger accepted more than 10 ms before the next boundary is
\* dispatched at that boundary, origin + (k+1)*g, and not earlier: a pending
\* snap timer is due at the boundary after the cell of its acceptance, the
\* timer that fired played at that boundary, and without double-tap every
\* voice started on a boundary or within 10 ms before one; at tempo 120 and
\* grid 1/8 a trigger 100 ms after the origin is due 250 ms after it.
C6_SnapAtNextBoundary ==
  LET g == getGridDurationSeconds(settings)
      boundaryAfter(t) ==
        quantizeStartTime + ((t - quantizeStartTime) \div g + 1) * g
  IN  /\ \A i \in 1..Len(timers) :
           timers[i].kind = "snap" =>
             /\ timers[i].due = boundaryAfter(timers[i].at)
             /\ timers[i].due - timers[i].at > SNAP_NOW_MS
             /\ now <= timers[i].due
             /\ (settings.tempo = 120 /\ settings.quantizeGrid = "1/8"
                   /\ timers[i].at = quantizeStartTime + 100)
                  => timers[i].due = quantizeStartTime + 250
      /\ lastSnapFired # <<>> =>
           lastSnapFired[1].start = boundaryAfter(lastSnapFired[1].at)
      /\ ~doubleTapEnabled =>
           \A i \in 1..Len(voicePool) :
             LET into == (voicePool[i].startTime - quantizeStartTime) % g
             IN  into = 0 \/ g - into <= SNAP_NOW_MS

\* the trigger made 100 ms after the origin has been played 250 ms after it
C6_Witness ==
  /\ settings.tempo = 120
  /\ settings.quantizeGrid = "1/8"
  /\ quantizeStartTime = 0
  /\ lastSnapFired = << [at |-> 100, due |-> 250, start |-> 250] >>
  /\ Len(voicePool) = 1
  /\ voicePool[1].startTime = 250
  /\ timers = <<>>

(***************************************************************************)
(* Quantize controls specification.  Snap or buffer mode at tempo 120,     *)
(* grid 1/8; the quantize switch, the tempo slider and the grid select are *)
(* changed between plain letters.                                          *)
(***************************************************************************)
InitRearm ==
  \E mode \in {"snap", "buffer"} :
    /\ InitState(TRUE, TRUE, QuantizeSettings(TRUE, mode, 120, "1/8"), FALSE)
    /\ lim = Limits(RearmSlots, RearmVoices, RearmEntries, RearmTimers,
                    {100, 300})

ToggleQuantize == SetQuantize(~settings.quantize)
ChangeTempo == \E tempo \in {120, 150} \ {settings.tempo} : SetTempo(tempo)
ChangeGrid == \E grid \in {"1/4", "1/8"} \ {settings.quantizeGrid} : SetGrid(grid)

NextRearm ==
  \/ TypingBoxKeyDown("a", ModsPlain)
  \/ ToggleQuantize
  \/ ChangeTempo
  \/ ChangeGrid
  \/ QuantizeTick
  \/ FireSnapTimer
  \/ \E t \in NextInstants : Advance(t - now)

SpecRearm == InitRearm /\ [][NextRearm]_vars

\* C7: each of the events `quantize toggled on', `tempo changed' and `grid
\* resolution changed' re-arms the quantizer: it sets the grid origin to the
\* current time, both grid indices to -1 and empties the quantize buffer.
C7_RearmResets ==
  [][ (audioState = "running"
         /\ ((ToggleQuantize /\ settings'.quantize) \/ ChangeTempo \/ ChangeGrid))
        => /\ quantizeStartTime' = audioTime
           /\ lastSnapGridIndex' = -1
           /\ lastBufferGridIndex' = -1
           /\ quantizeBuffer' = <<>> ]_vars

\* C8: switching quantize off cancels the pending dispatches of the
\* quantizer: while quantize is off no snap timer plays its note and the
\* tick dispatches no buffer entry.
C8_DisableCancels ==
  [][ (FireSnapTimer \/ QuantizeTick) => settings.quantize ]_vars

(***************************************************************************)
(* Playback specification.  Snap or buffer mode at tempo 120, grid 1/8;    *)
(* the typing box holds "ab"; Play and Stop are clicked at any instant.    *)
(***************************************************************************)
InitPlayback ==
  \E mode \in {"snap", "buffer"} :
    /\ InitState(TRUE, TRUE, QuantizeSettings(TRUE, mode, 120, "1/8"), FALSE)
    /\ lim = Limits(PlaySlots, PlayVoices, PlayEntries, PlayTimers, {100, 260})

NextPlayback ==
  \/ StartPlayback(<< "a", "b" >>)
  \/ StopPlayback
  \/ PlaybackTick
  \/ QuantizeTick
  \/ FireSnapTimer
  \/ \E t \in NextInstants : Advance(t - now)

SpecPlayback == InitPlayback /\ [][NextPlayback]_vars

\* C9: stopping playback cancels the pending dispatches of the run: when
\* playback is stopped, no snap timer plays a note of a played character,
\* the tick dispatches no buffer entry of a played character, and the tick
\* does not move the playback cursor.
C9_StopCancelsRun ==
  [][ ~isPlaying
        => /\ FireSnapTimer => Head(timers).opts.textIndex = <<>>
           /\ QuantizeTick => /\ Head(quantizeBuffer).textIndex = <<>>
                              /\ cursor' = cursor ]_vars

\* C10: stopAllVoices followed by a trigger behaves like a cold start: when
\* the escape key has run stopAllVoices, no note scheduled before is left
\* to be dispatched and the current snap cell is not marked used.
C10_StopAllIsColdStart ==
  [][ TypingBoxKeyDown("escape", ModsPlain)
        => /\ timers' = <<>>
           /\ settings.quantize =>
                (audioTime - quantizeStartTime)
                    \div getGridDurationSeconds(settings)
                  > lastSnapGridIndex' ]_vars

\* C11: stopAllVoices, run by the escape key, stops every voice that is in
\* the pool at the time of the call and leaves the voice pool and the
\* quantize buffer empty.
C11_StopAllEmpties ==
  [][ TypingBoxKeyDown("escape", ModsPlain)
        => /\ voicePool' = <<>>
           /\ quantizeBuffer' = <<>>
           /\ \A i \in 1..Len(voicePool) : voicePool[i].id \in stoppedIds' ]_vars

\* buffer mode: the tick has played the first entry, and stop-all has then
\* stopped its voice and thrown away the second entry
C11_Witness ==
  /\ settings.quantize
  /\ settings.quantizeMode = "buffer"
  /\ voicePool = <<>>
  /\ quantizeBuffer = <<>>
  /\ voiceCount = 1
  /\ stoppedIds = {1}
  /\ enqCount = 2
  /\ lastBufDispatch = 1

\* C12: with quantize off, whatever quantize mode is selected, a letter
\* passed to playNote is played in the same step: its voice is in the pool,
\* started at the current time, when the handler returns, and the quantize
\* buffer and both grid indices are unchanged.
C12_DisabledIsImmediate ==
  [][ (~settings.quantize /\ audioState = "running"
         /\ TypingBoxKeyDown("a", ModsPlain))
        => /\ voiceCount' = voiceCount + 1
           /\ voicePool' # <<>>
           /\ voicePool'[Len(voicePool')].id = voiceCount'
           /\ voicePool'[Len(voicePool')].startTime = audioTime
           /\ UNCHANGED << quantizeBuffer, enqCount, lastBufferGridIndex,
                           lastSnapGridIndex, timers >> ]_vars

\* buffer mode is selected and an entry waits in the buffer; quantize was
\* switched off, and a letter typed 100 ms later was played at once
C12_Witness ==
  /\ ~settings.quantize
  /\ settings.quantizeMode = "buffer"
  /\ audioTime = 100
  /\ Len(voicePool) = 1
  /\ voicePool[1].startTime = 100
  /\ lastBufDispatch = 0
  /\ Len(quantizeBuffer) = 1

\* the grid cell in which a voice started
CellOf(voice) ==
  (voice.startTime - quantizeStartTime) \div getGridDurationSeconds(settings)

\* C13: in buffer mode with unchanged tempo and grid, a tick that plays has
\* seen a grid cell index greater than lastBufferGridIndex; it removes
\* exactly the head entry, plays it in that tick and records the cell
\* index, so a cell that has served an entry serves no other: two voices of
\* the pool that started in the same cell are a note and its harmony echo.
C13_OneEntryPerCell ==
  /\ [](settings.quantize /\ settings.quantizeMode = "buffer"
          => \A i, j \in 1..Len(voicePool) :
               (i < j /\ CellOf(voicePool[i]) = CellOf(voicePool[j]))
                 => /\ j = i + 1
                    /\ voicePool[j].id = voicePool[i].id + 1
                    /\ voicePool[i].noteData.isHarmony
                    /\ voicePool[j].noteData.frequency
                         = voicePool[i].noteData.frequency + 7)
  /\ [][ QuantizeTick
          => /\ (audioTime - quantizeStartTime)
                    \div getGridDurationSeconds(settings) > lastBufferGridIndex
             /\ lastBufferGridIndex'
                  = (audioTime - quantizeStartTime)
                      \div getGridDurationSeconds(settings)
             /\ quantizeBuffer' = Tail(quantizeBuffer)
             /\ lastBufDispatch' = Head(quantizeBuffer).id
             /\ \E i \in 1..Len(voicePool') :
                  /\ voicePool'[i].id = voiceCount + 1
                  /\ voicePool'[i].noteData = Head(quantizeBuffer).noteData
                  /\ voicePool'[i].startTime = audioTime ]_vars

\* the ticks of cells 0 and 1 have each played one entry, and a third entry
\* waits in the buffer for the next cell
C13_Witness ==
  /\ settings.quantize
  /\ settings.quantizeMode = "buffer"
  /\ audioTime = 100
  /\ lastBufferGridIndex = 1
  /\ lastBufDispatch = 2
  /\ Len(voicePool) = 2
  /\ voicePool[1].startTime = 0
  /\ voicePool[2].startTime = 100
  /\ Len(quantizeBuffer) = 1
  /\ quantizeBuffer[1].id = 3

\* C14: a buffer-mode trigger that finds MAX_BUFFER_SIZE entries in the
\* quantize buffer is not rejected: the head entry is removed, the new
\* entry is appended at the tail, the other entries keep their order and
\* the length stays MAX_BUFFER_SIZE.
C14_OverflowDropsOldest ==
  [][ (settings.quantize /\ settings.quantizeMode = "buffer"
         /\ audioState = "running"
         /\ Len(quantizeBuffer) = MAX_BUFFER_SIZE
         /\ TypingBoxKeyDown("a", ModsPlain))
        => /\ Len(quantizeBuffer') = MAX_BUFFER_SIZE
           /\ SubSeq(quantizeBuffer', 1, MAX_BUFFER_SIZE - 1)
                = Tail(quantizeBuffer)
           /\ quantizeBuffer'[MAX_BUFFER_SIZE].id = enqCount + 1
           /\ ~quantizeBuffer'[MAX_BUFFER_SIZE].options.isDoubleTap
           /\ enqCount' = enqCount + 1 ]_vars

\* without double-tap, two letters have met a full buffer: the two oldest
\* entries are gone and the newest entry is the last of the buffer
C14_Witness ==
  /\ ~doubleTapEnabled
  /\ settings.quantize
  /\ lastBufDispatch = 0
  /\ Len(quantizeBuffer) = MAX_BUFFER_SIZE
  /\ enqCount = MAX_BUFFER_SIZE + 2
  /\ Head(quantizeBuffer).id = 3
  /\ quantizeBuffer[MAX_BUFFER_SIZE].id = enqCount

\* the voices of the pool after the step that were created by the step
NewVoices == SelectSeq(voicePool', LAMBDA v : v.id > voiceCount)

\* C15: eviction is first-in first-out and never refuses a new note: when a
\* dispatch makes the pool exceed MAX_VOICES, the voices removed are the
\* earliest-inserted ones, one for each voice in excess, they are stopped,
\* and every newly created voice stays in the pool; after any sequence of
\* dispatches, backspaces and evictions the pool is in insertion order.
C15_EvictionFifo ==
  /\ [](\A i \in 1..(Len(voicePool) - 1) :
          /\ voicePool[i].id < voicePool[i + 1].id
          /\ voicePool[i].startTime <= voicePool[i + 1].startTime)
  /\ [][ voiceCount' > voiceCount
          => LET all    == voicePool \o NewVoices
                 excess == Max(0, Len(all) - MAX_VOICES)
             IN  /\ Len(NewVoices) = voiceCount' - voiceCount
                 /\ voicePool' = SubSeq(all, excess + 1, Len(all))
                 /\ \A i \in 1..excess : all[i].id \in stoppedIds' ]_vars

\* six plain letters filled the pool, backspace took the newest voice away,
\* and two more letters came: the second of them evicted the oldest voice
C15_Witness ==
  /\ Len(voicePool) = MAX_VOICES
  /\ voiceCount = MAX_VOICES + 2
  /\ stoppedIds = {1, MAX_VOICES}
  /\ voicePool[1].id = 2
  /\ voicePool[MAX_VOICES].id = voiceCount
  /\ \A i \in 1..MAX_VOICES : ~voicePool[i].noteData.isHarmony

(***************************************************************************)
(* Sequencer specification.  Quantize is off; the typing box is empty or   *)
(* holds "ab" or "a1"; Play, Stop and Loop are clicked at any instant, at  *)
(* playback speed 1 or 2.                                                  *)
(***************************************************************************)
SeqTexts == { <<>>, << "a", "b" >>, << "a", "1" >> }

InitSeq ==
  \E speed \in {100, 200} :
    /\ InitState(TRUE, TRUE, [DefaultSettings EXCEPT !.playbackSpeed = speed],
                 FALSE)
    /\ lim = Limits(SeqSlots, SeqVoices, 0, SeqTimers, {100})

ClickPlay == \E text \in SeqTexts : StartPlayback(text)

NextSeq ==
  \/ ClickPlay
  \/ StopPlayback
  \/ ToggleLoop
  \/ PlaybackTick
  \/ FireChordTimer
  \/ \E t \in NextInstants : Advance(t - now)

SpecSeq == InitSeq /\ [][NextSeq]_vars

\* the step feeds a character of the text to handleKeyDown
FeedsCharacter == (ClickPlay \/ PlaybackTick) /\ isPlaying'

\* the timer of the next character, as the step leaves it
PlaybackTimerAfter == SelectSeq(timers', LAMBDA tm : tm.kind = "playback")

InitRun ==
  /\ InitState(TRUE, TRUE, DefaultSettings, FALSE)
  /\ lim = Limits(RunSlots, RunVoices, 0, RunTimers, {})

SpecRun ==
  /\ InitRun
  /\ [][NextSeq]_vars
  /\ WF_vars(PlaybackTick)
  /\ WF_vars(FireChordTimer)
  /\ WF_vars(\E t \in NextInstants : Advance(t - now))

\* the explored window has room for the rest of the run: the voices of the
\* characters not fed yet and of the chord notes still on timers, the three
\* timers of a chord, and the instant of the tick that finds the text
\* exhausted
RunCanFinish ==
  LET rest == Len(playText) - playbackIndex
      pb   == SelectSeq(timers, LAMBDA tm : tm.kind = "playback")
  IN  /\ Len(pb) = 1
      /\ voiceCount + 3 * rest + (Len(timers) - 1) <= lim.voices
      /\ rest = 0 \/ Len(timers) + 3 <= lim.timers
      /\ pb[1].due + rest * playbackDelay(settings) <= lim.slots * TICK_MS

\* C17: playback follows Idle -> Playing -> {Idle, Playing(looped)}.  Only a
\* click on Play with a non-empty text leaves Idle.  A tick with the cursor
\* inside the text feeds one character and moves the cursor by one; a tick
\* with the cursor at the end of the text goes back to the first character
\* and stays Playing when loop mode is on, and becomes Idle without feeding
\* anything when it is off.  Playing is left only by that tick or by a stop
\* call, never while loop mode is on unless stop is called.  Hence a run
\* with loop mode off reaches Idle (or loop mode is switched on first).
C17_PlaybackFsm ==
  /\ [][ PlaybackTick
          => /\ isPlaying
             /\ IF playbackIndex < Len(playText)
                THEN isPlaying' /\ playbackIndex' = playbackIndex + 1
                ELSE IF loopMode
                THEN isPlaying' /\ playbackIndex' = 1
                ELSE /\ ~isPlaying'
                     /\ playbackIndex' = 0
                     /\ voiceCount' = voiceCount
                     /\ PlaybackTimerAfter = <<>> ]_vars
  /\ [][ (~isPlaying /\ isPlaying')
          => ClickPlay /\ Len(playText') > 0 /\ playbackIndex' = 1 ]_vars
  /\ [][ (isPlaying /\ ~isPlaying')
          => \/ StopPlayback
             \/ PlaybackTick /\ ~loopMode /\ playbackIndex = Len(playText) ]_vars
  /\ (isPlaying /\ ~loopMode /\ RunCanFinish) ~> (~isPlaying \/ loopMode)

\* "ab" at speed 1 with loop mode on: the tick at 300 ms went back to `a'
C17_Witness ==
  /\ playText = << "a", "b" >>
  /\ settings.playbackSpeed = 100
  /\ loopMode
  /\ isPlaying
  /\ playbackIndex = 1
  /\ now = 300
  /\ voiceCount = 3
  /\ voicePool[3].startTime = 300
  /\ voicePool[3].noteData = voicePool[1].noteData

\* C18: startPlayback with an empty text changes nothing (the sequencer
\* state, the cursor, the timers, the voices and the buffer are as before);
\* Idle has cursor 0; and from Idle with a non-empty text startPlayback
\* enters Playing with the cursor set to 0, the first character being fed
\* before it returns, which leaves the cursor at 1 and one timer for the
\* next character.
C18_EmptyStartIsNoOp ==
  /\ \A rnd \in RandomChoices("") :
       startPlayback(Playback, <<>>, rnd) = Playback
  /\ ~isPlaying
       => /\ playbackIndex = 0
          /\ \A text \in SeqTexts \ { <<>> } :
               \A rnd \in RandomChoices(keyOfChar(text[1])) :
                 LET P1 == startPlayback(Playback, text, rnd)
                 IN  /\ P1.isPlaying
                     /\ P1.playbackIndex = 1
                     /\ Len(SelectSeq(P1.E.timers,
                                      LAMBDA tm : tm.kind = "playback")) = 1

\* Play was clicked at 100 ms with "ab" in the box and nothing played before
C18_Witness ==
  /\ playText = << "a", "b" >>
  /\ isPlaying
  /\ playbackIndex = 1
  /\ now = 100
  /\ voiceCount = 1
  /\ voicePool[1].startTime = 100
  /\ Len(timers) = 1
  /\ timers[1].kind = "playback"

\* C19: from every sequencer state stopPlayback leads to Idle with cursor 0
\* and no pending playback timer; a second call changes nothing more; no
\* tick of playNextCharacter runs while the sequencer is Idle and at most
\* one is ever pending, so no character is fed after stopPlayback returns
\* until Play is clicked again.
C19_StopIdempotent ==
  /\ [] LET P1 == stopPlayback(Playback)
        IN  /\ ~P1.isPlaying
            /\ P1.playbackIndex = 0
            /\ clearPlaybackTimeout(P1.E.timers) = P1.E.timers
            /\ stopPlayback(P1) = P1
            /\ P1.E = [Engine EXCEPT !.timers = P1.E.timers]
  /\ [] /\ Len(timers) - Len(clearPlaybackTimeout(timers))
             = IF isPlaying THEN 1 ELSE 0
        /\ ~isPlaying => playbackIndex = 0
  /\ [][ StopPlayback
          => ~isPlaying' /\ playbackIndex' = 0 /\ PlaybackTimerAfter = <<>>
             /\ voiceCount' = voiceCount ]_vars
  /\ [][ (voiceCount' # voiceCount /\ ~FireChordTimer) => isPlaying' ]_vars

\* Stop was clicked at 300 ms while "ab" was playing in a loop
C19_Witness ==
  /\ playText = << "a", "b" >>
  /\ settings.playbackSpeed = 100
  /\ loopMode
  /\ ~isPlaying
  /\ playbackIndex = 0
  /\ now = 300
  /\ voiceCount = 3
  /\ timers = <<>>

(***************************************************************************)
(* Power specification.  Quantize is on (snap or buffer mode, tempo 120,   *)
(* grid 1/8); the power button is clicked and keys are typed at any        *)
(* instant: a letter (plain or with alt), a scale key and Escape.          *)
(***************************************************************************)
PowerKeys == { "a", "f2", "escape" }

InitPower ==
  \E mode \in {"snap", "buffer"} :
    /\ InitState(TRUE, TRUE, QuantizeSettings(TRUE, mode, 120, "1/8"), FALSE)
    /\ lim = Limits(PowerSlots, PowerVoices, PowerEntries, PowerTimers, {100})

PowerKeyDown ==
  \/ \E key \in PowerKeys : TypingBoxKeyDown(key, ModsPlain)
  \/ TypingBoxKeyDown("a", ModsAlt)

NextPower ==
  \/ PowerKeyDown
  \/ PowerButton
  \/ QuantizeTick
  \/ FireSnapTimer
  \/ \E t \in NextInstants : Advance(t - now)

SpecPower == InitPower /\ [][NextPower]_vars

\* the symbols handleKeyDown tells apart
KeySymbols ==
  Letters \cup Digits \cup
  { "space", "backspace", "delete", "escape", "enter", "tab", "up", "down",
    "left", "right", "backquote", "plus", "minus",
    "f1", "f2", "f3", "f4", "f5", "f6", "f7", "f8", "f9" }

\* C20: while the engine is powered off handleKeyDown returns the engine as
\* it found it, for every symbol, modifier and caller: the voice pool, the
\* quantize buffer, the grid indices, the settings (base octave, transpose,
\* scale, wave type) and the timers are unchanged; and a keydown in the
\* typing box changes none of them.
C20_PoweredOffIgnoresKeys ==
  /\ [] (~isPoweredOn
          => \A key \in KeySymbols : \A mods \in {ModsPlain, ModsAlt} :
               \A fromTypingBox \in BOOLEAN : \A rnd \in RandomChoices(key) :
                 handleKeyDown(Engine, key, mods, fromTypingBox, <<>>, rnd)
                   = Engine)
  /\ [][ (~isPoweredOn /\ PowerKeyDown)
          => UNCHANGED << voicePool, voiceCount, stoppedIds, quantizeBuffer,
                          enqCount, lastSnapGridIndex, lastBufferGridIndex,
                          quantizeStartTime, settings, timers >> ]_vars

\* the only keydown with alt held came while the power was off: nothing was
\* ever played, queued or scheduled
C20_Witness ==
  /\ ~isPoweredOn
  /\ modifiers.alt
  /\ voiceCount = 0
  /\ enqCount = 0
  /\ timers = <<>>
  /\ lastSnapGridIndex = -1

(***************************************************************************)
(* Key specification.  Quantize is off; keydown and keyup messages of the  *)
(* key `a' arrive from the key event source, keydown events (first or      *)
(* repeated) arrive in the typing box, and the typing box gains and loses  *)
(* focus at any instant.                                                   *)
(***************************************************************************)
InitKeys ==
  /\ \E focused \in BOOLEAN : InitState(TRUE, focused, DefaultSettings, FALSE)
  /\ lim = Limits(KeySlots, KeyVoices, 0, 0, {100})

NextKeys ==
  \/ WsKeyDown("a", ModsPlain)
  \/ WsKeyUp("a")
  \/ \E repeat \in BOOLEAN : TypingBoxKeyEvent(repeat, "a", ModsPlain)
  \/ \E focused \in BOOLEAN : SetFocus(focused)
  \/ \E t \in NextInstants : Advance(t - now)

SpecKeys == InitKeys /\ [][NextKeys]_vars

\* C21: a keydown message for a key that had a keydown message and no keyup
\* message since, and a keydown event flagged as repeat, play no note.
C21_RepeatsNeverTrigger ==
  [][ /\ ("a" \in downKeys /\ WsKeyDown("a", ModsPlain))
          => voiceCount' = voiceCount
      /\ TypingBoxKeyEvent(TRUE, "a", ModsPlain)
          => voiceCount' = voiceCount ]_vars

(***************************************************************************)
(* Pitch mapper specification.  Frequency layout, quantize off, any scale  *)
(* of SCALES; letters and symbols without a letter tier are typed, plain   *)
(* or shifted.                                                             *)
(***************************************************************************)
MapSymbols ==
  Letters \cup { ";", ",", ".", "/", "[", "]", "'", "-", "=", "shift",
                 "caps_lock" }

InitMap ==
  /\ \E sc \in ScaleNames :
       InitState(TRUE, TRUE, [DefaultSettings EXCEPT !.scale = sc], FALSE)
  /\ lim = Limits(0, MapVoices, 0, 0, {})

NextMap ==
  \E key \in MapSymbols : \E mods \in {ModsPlain, ModsShift} :
    TypingBoxKeyDown(key, mods)

SpecMap == InitMap /\ [][NextMap]_vars

\* the interval set of a scale
ScaleIntervals(name) == { SCALES[name][i] : i \in 1..Len(SCALES[name]) }

\* C22: in frequency layout keyToNote returns a note for every symbol, with
\* or without a letter tier, and for every scale, and the semitone of the
\* note is an interval of the scale; so is the semitone of every voice a
\* typed symbol starts.
C22_FrequencyMapInScale ==
  /\ settings.layoutMode = "frequency"
  /\ \A key \in MapSymbols : \A mods \in {ModsPlain, ModsShift, ModsAlt} :
       LET note == keyToNote(key, mods, settings)
       IN  /\ Len(note) = 1
           /\ note[1].semitone \in ScaleIntervals(settings.scale)
  /\ \A i \in 1..Len(voicePool) :
       voicePool[i].noteData.semitone \in ScaleIntervals(settings.scale)

\* `.' (code 46) in Bebop Major: degree 46 % 8 = 6, semitone 9, which no
\* letter reaches
C22_Witness ==
  /\ settings.scale = "bebop_major"
  /\ Len(voicePool) = 1
  /\ voicePool[1].noteData.semitone = 9
  /\ << voicePool[1].noteData >> = keyToNote(".", ModsPlain, settings)

(***************************************************************************)
(* Arpeggiator specification.  Quantize is on (snap or buffer mode, tempo  *)
(* 120, grid 1/8), double-tap on or off; the arpeggiator is switched on    *)
(* and off and its pattern set to up or down, and the letter `a' is typed  *)
(* at any instant.                                                         *)
(***************************************************************************)
InitArp ==
  \E mode \in {"snap", "buffer"} : \E dtap \in BOOLEAN :
    /\ InitState(TRUE, TRUE, QuantizeSettings(TRUE, mode, 120, "1/8"), dtap)
    /\ lim = Limits(ArpSlots, ArpVoices, ArpEntries, ArpTimers, {100})

NextArp ==
  \/ TypingBoxKeyDown("a", ModsPlain)
  \/ \E enabled \in BOOLEAN : \E pattern \in {"up", "down"} :
       SetArp(enabled, pattern, 1)
  \/ QuantizeTick
  \/ FireSnapTimer
  \/ FireDoubleTapTimer
  \/ FireArpTimer
  \/ \E t \in NextInstants : Advance(t - now)

SpecArp == InitArp /\ [][NextArp]_vars

\* the arpeggio timers set at this instant, among tms
ArpTimersSetNow(tms) ==
  SelectSeq(tms, LAMBDA tm : tm.kind = "arp" /\ tm.at = now)

\* C23: with the arpeggiator on, pattern up and one octave, a trigger of a
\* note with semitone 0 sets four timers, for the notes 0, 4, 7 and 12
\* semitones above the base in that order, note i due i*(60/tempo/4)*1000 ms
\* after the trigger (i*125 ms at tempo 120); each timer runs when it is due
\* and starts the voice of its note at that instant.
C23_ArpUpFourNotes ==
  /\ [][ (arpEnabled /\ arpPattern = "up" /\ arpOctaves = 1
            /\ TypingBoxKeyDown("a", ModsPlain))
          => LET base == keyToNote("a", ModsPlain, settings)[1]
                 set  == ArpTimersSetNow(timers')
                 m    == Len(ArpTimersSetNow(timers))
             IN  /\ base.semitone = 0
                 /\ Len(set) = m + 4
                 /\ \A i \in 0..3 :
                      /\ set[m + i + 1].i = i
                      /\ set[m + i + 1].note.frequency
                           = base.frequency + << 0, 4, 7, 12 >>[i + 1]
                      /\ (set[m + i + 1].due - now) * settings.tempo
                           = i * 15000
                 /\ settings.tempo = 120
                      => \A i \in 0..3 : set[m + i + 1].due = now + i * 125
                 /\ voiceCount' = voiceCount ]_vars
  /\ [][ FireArpTimer
          => /\ Head(timers).due = now
             /\ voiceCount' = voiceCount + 1
             /\ voicePool'[Len(voicePool')].id = voiceCount'
             /\ voicePool'[Len(voicePool')].noteData = Head(timers).note
             /\ voicePool'[Len(voicePool')].startTime = audioTime
             /\ audioTime = Head(timers).at
                              + Head(timers).i * (15000 \div settings.tempo) ]_vars

\* `a' typed at 0 ms with the pattern up: the four voices started at 0, 125,
\* 250 and 375 ms, at 0, 4, 7 and 12 semitones above the note of `a'
C23_Witness ==
  /\ arpEnabled /\ arpPattern = "up"
  /\ voiceCount = 4
  /\ Len(voicePool) = 4
  /\ \A i \in 0..3 :
       /\ voicePool[i + 1].startTime = i * 125
       /\ voicePool[i + 1].noteData.frequency
            = keyToNote("a", ModsPlain, settings)[1].frequency
                + << 0, 4, 7, 12 >>[i + 1]

(***************************************************************************)
(* Chord specification.  Quantize is off, or on in snap or buffer mode     *)
(* (tempo 120, grid 1/8); the digits 1 and 8 are typed at any instant.     *)
(***************************************************************************)
InitChord ==
  \E on \in BOOLEAN : \E mode \in {"snap", "buffer"} :
    /\ InitState(TRUE, TRUE, QuantizeSettings(on, mode, 120, "1/8"), FALSE)
    /\ lim = Limits(ChordSlots, ChordVoices, ChordEntries, ChordTimers, {100})

NextChord ==
  \/ \E digit \in {"1", "8"} : TypingBoxKeyDown(digit, ModsPlain)
  \/ FireChordTimer
  \/ FireSnapTimer
  \/ QuantizeTick
  \/ \E t \in NextInstants : Advance(t - now)

SpecChord == InitChord /\ [][NextChord]_vars

\* C24: in every quantize setting the timer of chord tone i runs 15*i ms
\* after the trigger and its tone is not dropped: it is played at once
\* (quantize off, or snap on a boundary), queued (buffer mode) or scheduled
\* for the next boundary (snap mode).
C24_ChordTonesAllDispatched ==
  [][ FireChordTimer
      => /\ now = Head(timers).at + CHORD_STAGGER_MS * Head(timers).i
         /\ \/ voiceCount' = voiceCount + 1
            \/ enqCount' = enqCount + 1
            \/ Len(SelectSeq(timers', LAMBDA tm : tm.kind = "snap"))
                 = Len(SelectSeq(timers, LAMBDA tm : tm.kind = "snap")) + 1 ]_vars

\* the step dispatches a double-tap echo: its timer runs, or the tick takes
\* an echo entry off the buffer
DispatchesEcho ==
  \/ FireDoubleTapTimer
  \/ QuantizeTick /\ quantizeBuffer # <<>>
       /\ Head(quantizeBuffer).options.isDoubleTap

\* C25: with double-tap enabled, every dispatch of a note that is not itself
\* an echo (immediate, snap, buffer, arpeggio tone) leaves a timer that
\* dispatches the same note as an echo 80 ms later.
C25_EveryNoteEchoed ==
  [][ (doubleTapEnabled /\ voiceCount' > voiceCount /\ ~DispatchesEcho)
      => \E k \in 1..Len(timers') :
           /\ timers'[k].kind = "doubleTap"
           /\ timers'[k].due = now + DOUBLE_TAP_MS
           /\ timers'[k].note = voicePool'[Len(voicePool')].noteData ]_vars

\* C26: a dispatch creates one voice, or two when the note has its isHarmony
\* flag set: the voice of the note and, right behind it and at the same
\* instant, one echo 7 semitones above it, quieter than the note and without
\* the isHarmony flag; nothing follows the echo.
C26_HarmonyOneEcho ==
  [][ voiceCount' > voiceCount
      => LET new == NewVoices
         IN  /\ Len(new) = voiceCount' - voiceCount
             /\ Len(new) = IF new[1].noteData.isHarmony THEN 2 ELSE 1
             /\ new[1].noteData.isHarmony
                  => /\ new[2].id = new[1].id + 1
                     /\ new[2].noteData.frequency = new[1].noteData.frequency + 7
                     /\ new[2].noteData.semitone
                          = (new[1].noteData.semitone + 7) % 12
                     /\ ~new[2].noteData.isHarmony
                     /\ new[2].velocity < new[1].velocity
                     /\ new[2].startTime = new[1].startTime ]_vars

\* the first trigger was `a' with alt held: its note and the echo a fifth
\* above are the two voices of the pool
C26_Witness ==
  /\ voiceCount = 2
  /\ Len(voicePool) = 2
  /\ voicePool[1].noteData.isHarmony
  /\ ~voicePool[2].noteData.isHarmony
  /\ voicePool[2].noteData.frequency = voicePool[1].noteData.frequency + 7

\* C27: while quantize is enabled a note (plain, chord tone or arpeggio
\* tone) is dispatched only by the scheduler: by the tick in buffer mode, and
\* in snap mode by the timer set for the next boundary or, within 10 ms of
\* that boundary, at once (the echo of a dispatched note follows 80 ms
\* later on its own timer).
C27_ExpandedNotesQuantized ==
  [][ (settings.quantize /\ voiceCount' > voiceCount)
      => \/ QuantizeTick
         \/ FireSnapTimer
         \/ FireDoubleTapTimer
         \/ /\ settings.quantizeMode = "snap"
            /\ nextGridTime(Engine) - audioTime <= SNAP_NOW_MS ]_vars

(***************************************************************************)
(* Tagging specification.  Buffer mode at tempo 120, grid 1/8; the typing  *)
(* box holds "a " (a letter and a space) or "1"; Play and Stop are clicked *)
(* at any instant and nothing is typed by hand.                            *)
(***************************************************************************)
TagTexts == { << "a", " " >>, << "1" >> }

InitTag ==
  /\ InitState(TRUE, TRUE, QuantizeSettings(TRUE, "buffer", 120, "1/8"), FALSE)
  /\ lim = Limits(TagSlots, TagVoices, TagEntries, TagTimers, {100, 200})

NextTag ==
  \/ \E text \in TagTexts : StartPlayback(text)
  \/ StopPlayback
  \/ PlaybackTick
  \/ FireChordTimer
  \/ QuantizeTick
  \/ \E t \in NextInstants : Advance(t - now)

SpecTag == InitTag /\ [][NextTag]_vars

\* C28: every quantize-buffer entry made during playback carries the index
\* of the character it comes from (letter, space, newline or digit), and
\* the tick that takes the entry off the buffer moves the cursor there.
C28_EntriesCarryIndex ==
  /\ [] \A k \in 1..Len(quantizeBuffer) :
          /\ Len(quantizeBuffer[k].textIndex) = 1
          /\ quantizeBuffer[k].textIndex[1] \in 0..(Len(playText) - 1)
  /\ [][ QuantizeTick
          => cursor' = Head(quantizeBuffer).textIndex[1] ]_vars

(***************************************************************************)
(* Velocity specification.  Quantize is off; Enter, the space bar, a digit *)
(* and a letter (plain, with alt or with cmd) are typed at any instant,    *)
(* with the arpeggiator on or off.                                         *)
(***************************************************************************)
InitVel ==
  /\ InitState(TRUE, TRUE, DefaultSettings, FALSE)
  /\ lim = Limits(VelSlots, VelVoices, 0, VelTimers, {100})

NextVel ==
  \/ \E key \in {"enter", "space", "1"} : TypingBoxKeyDown(key, ModsPlain)
  \/ \E mods \in {ModsPlain, ModsAlt, ModsCmd} : TypingBoxKeyDown("a", mods)
  \/ \E enabled \in BOOLEAN : SetArp(enabled, "up", 1)
  \/ FireArpTimer
  \/ FireChordTimer
  \/ \E t \in NextInstants : Advance(t - now)

SpecVel == InitVel /\ [][NextVel]_vars

\* C29: every voice is created with a peak velocity of at most 0.4, whatever
\* velocity was asked for and whatever modifier is held: letters, the Enter
\* bass note (0.7 asked for), the space bar, chord tones, harmony echoes and
\* arpeggio tones.
C29_VelocityCeiling ==
  \A i \in 1..Len(voicePool) :
    voicePool[i].velocity <= (4 * VEL_ONE) \div 10

\* the Enter bass note, asked for at 0.7, was created at the ceiling
C29_Witness ==
  \E i \in 1..Len(voicePool) :
    /\ voicePool[i].noteData = Note(-24, 2, 0, FALSE)
    /\ voicePool[i].velocity = (4 * VEL_ONE) \div 10

(***************************************************************************)
(* Octave specification.  Quantize is off; `plus', `minus' and the letter  *)
(* `a' are typed at any instant, in any order.                             *)
(***************************************************************************)
InitOctave ==
  /\ InitState(TRUE, TRUE, DefaultSettings, FALSE)
  /\ lim = Limits(OctaveSlots, OctaveVoices, 0, 0, {100})

NextOctave ==
  \/ \E key \in {"plus", "minus", "a"} : TypingBoxKeyDown(key, ModsPlain)
  \/ \E t \in NextInstants : Advance(t - now)

SpecOctave == InitOctave /\ [][NextOctave]_vars

\* C30: the base octave stays within 1..7 after any sequence of `plus' and
\* `minus' triggers; a `plus' raises it by one and a `minus' lowers it by
\* one, except that a `plus' at 7 and a `minus' at 1 leave it (and the whole
\* engine) unchanged.
C30_OctaveWithinRange ==
  /\ settings.baseOctave \in 1..7
  /\ handleKeyDown(Engine, "plus", ModsPlain, TRUE, <<>>, <<>>).settings.baseOctave
       = (IF settings.baseOctave = 7 THEN 7 ELSE settings.baseOctave + 1)
  /\ handleKeyDown(Engine, "minus", ModsPlain, TRUE, <<>>, <<>>).settings.baseOctave
       = (IF settings.baseOctave = 1 THEN 1 ELSE settings.baseOctave - 1)
  /\ settings.baseOctave = 7
       => handleKeyDown(Engine, "plus", ModsPlain, TRUE, <<>>, <<>>) = Engine
  /\ settings.baseOctave = 1
       => handleKeyDown(Engine, "minus", ModsPlain, TRUE, <<>>, <<>>) = Engine

\* three `plus' triggers took the octave from 4 to the top, and a note was
\* played there
C30_Witness ==
  /\ settings.baseOctave = 7
  /\ \E i \in 1..Len(voicePool) : voicePool[i].noteData.octave >= 7

\* three `minus' triggers took the octave from 4 to the bottom
C30_WitnessLow ==
  settings.baseOctave = 1

\* the audio clock stands exactly on a boundary of the snap grid
OnGridBoundary ==
  /\ audioState = "running"
  /\ settings.quantize
  /\ settings.quantizeMode = "snap"
  /\ (audioTime - quantizeStartTime) % getGridDurationSeconds(settings) = 0

\* C31: a snap-mode letter trigger that arrives exactly on a grid boundary,
\* in a cell not yet used, is dispatched at once: its voice is created by the
\* trigger itself and no snap timer is set for it.
C31_BoundaryPlaysAtOnce ==
  [][ (OnGridBoundary /\ ~InUsedCell /\ LetterKeyDown)
        => /\ voiceCount' > voiceCount
           /\ \A i \in 1..Len(timers') : timers'[i].kind # "snap" ]_vars

(***************************************************************************)
(* Echo specification.  Quantize off, snap mode or buffer mode at tempo    *)
(* 120, grid 1/8, with and without double-tap; the letter `a' is typed at  *)
(* any instant, as often as the bounds allow (more than MAX_BUFFER_SIZE    *)
(* times in buffer mode).                                                  *)
(***************************************************************************)
InitEcho ==
  \E sc \in { << FALSE, "snap" >>, << TRUE, "snap" >>, << TRUE, "buffer" >> } :
    \E dtap \in BOOLEAN :
      /\ InitState(TRUE, TRUE, QuantizeSettings(sc[1], sc[2], 120, "1/8"), dtap)
      /\ lim = Limits(EchoSlots, EchoVoices,
                      IF sc[2] = "buffer" THEN EchoEntries ELSE 0,
                      EchoTimers, {100, 245})

EchoKeyDown == TypingBoxKeyDown("a", ModsPlain)

NextEcho ==
  \/ EchoKeyDown
  \/ QuantizeTick
  \/ FireSnapTimer
  \/ FireDoubleTapTimer
  \/ \E t \in NextInstants : Advance(t - now)

SpecEcho == InitEcho /\ [][NextEcho]_vars

\* the timers of the given kind
TimersOfKind(tms, kind) == SelectSeq(tms, LAMBDA tm : tm.kind = kind)

\* C32: a double-tap echo never produces another echo.  One playNote for one
\* note creates at most one voice and sets at most one timer, or pushes at
\* most two buffer entries; the second entry is the echo, and it is pushed
\* exactly when double-tap is on and the buffer holds fewer than
\* MAX_BUFFER_SIZE entries after the first push.  A snap timer plays one
\* voice and sets at most one echo timer; an echo timer plays one voice and
\* sets no timer and pushes no entry; the tick plays one voice per entry and
\* sets no timer.  So one playNote leads to at most two dispatches.
C32_EchoNeverEchoes ==
  /\ [] \A i \in 1..Len(timers) :
          timers[i].kind = "doubleTap"
            => timers[i].opts.isDoubleTap /\ ~timers[i].shouldDoubleTap
  /\ [][ EchoKeyDown
           => /\ (voiceCount' - voiceCount) + (Len(timers') - Len(timers))
                   + (enqCount' - enqCount) <= 2
              /\ voiceCount' - voiceCount <= 1
              /\ Len(timers') - Len(timers) <= 1
              /\ (settings.quantize /\ settings.quantizeMode = "buffer")
                   => /\ enqCount' - enqCount
                           = (IF doubleTapEnabled
                                  /\ Min(Len(quantizeBuffer), MAX_BUFFER_SIZE - 1) + 1
                                        < MAX_BUFFER_SIZE
                              THEN 2 ELSE 1)
                      /\ UNCHANGED << voiceCount, timers >> ]_vars
  /\ [][ FireSnapTimer
           => /\ voiceCount' = voiceCount + 1
              /\ TimersOfKind(timers', "snap") = Tail(TimersOfKind(timers, "snap"))
              /\ Len(TimersOfKind(timers', "doubleTap"))
                   <= Len(TimersOfKind(timers, "doubleTap")) + 1
              /\ enqCount' = enqCount ]_vars
  /\ [][ FireDoubleTapTimer
           => /\ voiceCount' = voiceCount + 1
              /\ timers' = Tail(timers)
              /\ enqCount' = enqCount ]_vars
  /\ [][ QuantizeTick
           => /\ voiceCount' = voiceCount + 1
              /\ timers' = timers
              /\ enqCount' = enqCount
              /\ quantizeBuffer' = Tail(quantizeBuffer) ]_vars

\* quantize off: the note and its echo, 80 ms later, have been played, and
\* nothing more is pending
C32_Witness ==
  /\ ~settings.quantize
  /\ doubleTapEnabled
  /\ now = DOUBLE_TAP_MS
  /\ voiceCount = 2
  /\ Len(voicePool) = 2
  /\ voicePool[1].noteData = voicePool[2].noteData
  /\ voicePool[2].startTime = voicePool[1].startTime + DOUBLE_TAP_MS
  /\ timers = <<>>

\* the names of the entries of a buffer
EntryIds(q) == { q[i].id : i \in 1..Len(q) }

\* the step left the state stopAllVoices leaves: no voice and no entry, and
\* the voices of the pool stopped
StopAllStep ==
  /\ voicePool' = <<>>
  /\ quantizeBuffer' = <<>>
  /\ \A i \in 1..Len(voicePool) : voicePool[i].id \in stoppedIds'

\* the step left the state the quantize switch leaves when it is turned on
RearmStep ==
  /\ settings'.quantize
  /\ quantizeStartTime' = audioTime
  /\ lastBufferGridIndex' = -1
  /\ lastSnapGridIndex' = -1
  /\ quantizeBuffer' = <<>>

\* C33: the tick and the key triggers do not disturb each other.  A tick
\* appends nothing: it removes the head entry, which it dispatches, and
\* changes neither lastSnapGridIndex, the grid origin nor a setting.  A
\* trigger leaves the waiting entries in place, except for the head when the
\* buffer is full, and appends its new entries at the tail; the step that
\* appends changes neither lastBufferGridIndex nor the origin.  The entries the tick
\* dispatches have increasing names, so none is dispatched twice, and an
\* entry leaves the buffer only by being dispatched, by overflow, by re-arm
\* or by stop-all.
C33_TickAndTriggerApart ==
  /\ [][ QuantizeTick
           => /\ quantizeBuffer' = Tail(quantizeBuffer)
              /\ lastBufDispatch' = Head(quantizeBuffer).id
              /\ lastBufDispatch' > lastBufDispatch
              /\ UNCHANGED << lastSnapGridIndex, quantizeStartTime, settings,
                              enqCount >> ]_vars
  /\ [][ enqCount' > enqCount
           => LET k    == IF settings.quantize
                              /\ Len(quantizeBuffer) >= MAX_BUFFER_SIZE
                          THEN 1 ELSE 0
                  kept == Len(quantizeBuffer) - k
              IN  /\ Len(quantizeBuffer') >= kept
                  /\ SubSeq(quantizeBuffer', 1, kept)
                       = SubSeq(quantizeBuffer, k + 1, Len(quantizeBuffer))
                  /\ \A i \in (kept + 1)..Len(quantizeBuffer') :
                       quantizeBuffer'[i].id = enqCount + (i - kept)
                  /\ enqCount' = enqCount + (Len(quantizeBuffer') - kept)
                  /\ UNCHANGED << lastBufferGridIndex, lastBufDispatch,
                                  quantizeStartTime >> ]_vars
  /\ [][ \A id \in EntryIds(quantizeBuffer) \ EntryIds(quantizeBuffer') :
           \/ lastBufDispatch' = id /\ voiceCount' > voiceCount
           \/ /\ enqCount' > enqCount
              /\ Len(quantizeBuffer) >= MAX_BUFFER_SIZE
              /\ id = Head(quantizeBuffer).id
           \/ StopAllStep
           \/ RearmStep ]_vars

\* the tick of cell 0 dispatched the first entry between two triggers, a
\* third trigger came in cell 0 after it, and the two entries wait in order
C33_Witness ==
  /\ settings.quantize
  /\ now = 100
  /\ lastBufferGridIndex = 0
  /\ lastBufDispatch = 1
  /\ enqCount = 3
  /\ Len(quantizeBuffer) = 2
  /\ quantizeBuffer[1].id = 2
  /\ quantizeBuffer[2].id = 3

(***************************************************************************)
(* Drain specification.  Buffer mode at tempo 150, grid 1/16 (cells of     *)
(* 100 ms), quantize left on and the settings left alone, with and without *)
(* double-tap.  Letters and escape arrive at the origin, in the middle of  *)
(* a cell and on the cell boundaries.  The interval callback runs, and the *)
(* clock moves on while the callback has nothing to play.                  *)
(***************************************************************************)
DrainInstants ==
  { 50 } \cup { k * 100 : k \in 1..((DrainSlots * TICK_MS) \div 100) }

InitDrain ==
  \E dtap \in BOOLEAN :
    /\ InitState(TRUE, TRUE, QuantizeSettings(TRUE, "buffer", 150, "1/16"), dtap)
    /\ lim = Limits(DrainSlots, DrainVoices, DrainEntries, 0, DrainInstants)

NextDrain ==
  \/ TypingBoxKeyDown("a", ModsPlain)
  \/ TypingBoxKeyDown("escape", ModsPlain)
  \/ QuantizeTick
  \/ \E t \in NextInstants : Advance(t - now)

SpecDrain ==
  /\ InitDrain
  /\ [][NextDrain]_vars
  /\ WF_vars(QuantizeTick)
  /\ WF_vars(\E t \in NextInstants : Advance(t - now))

\* the entry named id waits in the buffer
Waiting(id) == id \in EntryIds(quantizeBuffer)

\* the place in the buffer of the entry named id (1 for the head)
PlaceOf(q, id) == CHOOSE k \in 1..Len(q) : q[k].id = id

\* the grid cell the audio clock is in
GridNow ==
  (audioTime - quantizeStartTime) \div getGridDurationSeconds(settings)

\* the first cell in which the tick can play: the current one, or the next
\* one when the current cell has served an entry
ServingCell(grid, lastGrid) == Max(grid, lastGrid + 1)

\* the cell in which the entry named id is played when the buffer is served
\* one entry per cell from now on
DueCell(id) ==
  ServingCell(GridNow, lastBufferGridIndex) + PlaceOf(quantizeBuffer, id) - 1

\* DueCell(id) in the state after the step
DueCellAfter(id) ==
  ServingCell((audioTime' - quantizeStartTime')
                \div getGridDurationSeconds(settings'), lastBufferGridIndex')
    + PlaceOf(quantizeBuffer', id) - 1

\* the explored window has room for the entry named id to be played: the
\* cell it is due in and the voices of the entries up to it
CanDrain(id) ==
  /\ DueCell(id) * getGridDurationSeconds(settings) <= lim.slots * TICK_MS
  /\ voiceCount + PlaceOf(quantizeBuffer, id) <= lim.voices

\* C34: in buffer mode, with quantize left on and the settings unchanged,
\* every entry pushed into the buffer leaves it: it is dispatched by the
\* tick, or removed by stop-all.  An entry pushed in cell c behind p others
\* is due in cell c + p + 1 at the latest; while it waits its due cell never
\* moves back, the tick dispatches the head in the cell the head is due in,
\* and no entry is due more than MAX_BUFFER_SIZE cells ahead.
C34_EntriesDrain ==
  /\ [] \A k \in 1..Len(quantizeBuffer) :
          DueCell(quantizeBuffer[k].id) - GridNow <= MAX_BUFFER_SIZE
  /\ [][ \A k \in 1..Len(quantizeBuffer') :
           LET id == quantizeBuffer'[k].id
           IN  IF Waiting(id)
               THEN DueCellAfter(id) <= DueCell(id)
               ELSE DueCellAfter(id) <= GridNow + (k - 1) + 1 ]_vars
  /\ [][ QuantizeTick
           => /\ GridNow = DueCell(Head(quantizeBuffer).id)
              /\ lastBufDispatch' = Head(quantizeBuffer).id ]_vars
  /\ \A id \in 1..DrainEntries :
       (Waiting(id) /\ CanDrain(id)) ~> ~Waiting(id)

\* three letters were typed in the middle of cell 0, after the cell had
\* served an entry: the third of them, pushed behind two others, was
\* dispatched on the boundary of cell 3
C34_Witness ==
  /\ ~doubleTapEnabled
  /\ now = 300
  /\ enqCount = 4
  /\ lastBufDispatch = 4
  /\ lastBufferGridIndex = 3
  /\ quantizeBuffer = <<>>
  /\ Len(voicePool) = 4
  /\ voicePool[1].startTime = 0
  /\ voicePool[4].startTime = 300

\* C35: in buffer mode every dispatch of a buffered entry happens at the
\* start of a grid cell, less than one tick period after a cell boundary,
\* also for an entry pushed in the middle of a cell that has not served an
\* entry yet.
C35_DispatchOnBoundary ==
  [][ QuantizeTick
        => (audioTime - quantizeStartTime) % getGridDurationSeconds(settings)
             < TICK_MS ]_vars

\* C36: the sequencer state is consistent after every step, for every
\* sequence of start, stop, loop-toggle and tick events.  isPlaying is false
\* exactly when no playback timer is pending, and at most one is ever
\* pending; Idle implies cursor 0; the cursor stays within the text, and is
\* at least 1 while Playing; a start while Playing changes nothing.
C36_SequencerConsistent ==
  /\ isPlaying <=> TimersOfKind(timers, "playback") # <<>>
  /\ Len(TimersOfKind(timers, "playback")) <= 1
  /\ ~isPlaying => playbackIndex = 0
  /\ playbackIndex \in 0..Len(playText)
  /\ isPlaying => playbackIndex >= 1
  /\ isPlaying
       => \A text \in SeqTexts :
            \A rnd \in RandomChoices(IF Len(text) = 0 THEN ""
                                      ELSE keyOfChar(text[1])) :
              startPlayback(Playback, text, rnd) = Playback

\* "ab" was played to its end with loop mode off, Play was clicked again at
\* 300 ms and the second run is at its first character
C36_Witness ==
  /\ playText = << "a", "b" >>
  /\ ~loopMode
  /\ isPlaying
  /\ playbackIndex = 1
  /\ now = 300
  /\ voiceCount = 3
  /\ Len(timers) = 1
  /\ timers[1].kind = "playback"
  /\ timers[1].due = 450

\* C37: no voice is created while the engine is powered off: a step taken
\* with the power off, other than the click that switches it on, adds no
\* voice to the pool, also when a snap timer set before the power-off falls
\* due, and leaves the sequencer Idle.
C37_NoVoiceWhilePoweredOff ==
  [][ (~isPoweredOn /\ ~isPoweredOn')
        => /\ voiceCount' = voiceCount
           /\ voicePool' = voicePool
           /\ ~isPlaying' ]_vars

\* C38: a released key can always be triggered again: a keydown message of
\* a key whose last message was a keyup (or that had no message yet), taken
\* while the typing box is not focused, is handled as a fresh trigger and
\* plays its note, whatever focus and blur events came before.
C38_ReleasedKeyTriggers ==
  [][ ("a" \notin downKeys /\ ~typingBoxFocused /\ isPoweredOn
         /\ audioState # "none" /\ WsKeyDown("a", ModsPlain))
        => /\ voiceCount' = voiceCount + 1
           /\ "a" \in heldKeys' ]_vars

(***************************************************************************)
(* Cold start specification.  The page has loaded and the audio engine is  *)
(* not initialised: no click on the page yet, no key event source.  The    *)
(* typing box has the keyboard focus or not.  Keys are typed in the box,   *)
(* Play and Stop are clicked with "ab" in the box, and the page is clicked *)
(* elsewhere, at any instant.  Quantize is off.                            *)
(***************************************************************************)
InitColdStart ==
  /\ \E focused \in BOOLEAN : InitState(FALSE, focused, DefaultSettings, FALSE)
  /\ lim = Limits(ColdSlots, ColdVoices, 0, ColdTimers, {100})

ColdPlay == StartPlayback(<< "a", "b" >>)

NextColdStart ==
  \/ TypingBoxKeyDown("a", ModsPlain)
  \/ ColdPlay
  \/ StopPlayback
  \/ PlaybackTick
  \/ ClickInitAudio
  \/ \E focused \in BOOLEAN : SetFocus(focused)
  \/ \E t \in NextInstants : Advance(t - now)

SpecColdStart == InitColdStart /\ [][NextColdStart]_vars

\* C39: a trigger is never lost because of audio initialisation: a letter
\* typed in the box, and a letter fed by playback, plays its note in the
\* same step also when the audio engine was not initialised before, and the
\* engine is initialised afterwards.
C39_FirstTriggerSounds ==
  [][ (isPoweredOn
         /\ \/ TypingBoxKeyDown("a", ModsPlain)
            \/ (ColdPlay \/ PlaybackTick) /\ isPlaying')
        => /\ audioState' = "running"
           /\ voiceCount' = voiceCount + 1 ]_vars

(***************************************************************************)
(* Arpeggio tone specification.  Quantize is off and the arpeggiator is    *)
(* set to a pattern and a number of octaves (the random pattern with one   *)
(* octave); the letter `a' is typed and the tones are played from their    *)
(* timers, 125 ms apart at tempo 120.  The controls are changed and the    *)
(* letter is typed when the tones of the letter before have been played.   *)
(***************************************************************************)
TonePatterns ==
  ({"up", "down", "updown"} \X {1, 2}) \cup { << "random", 1 >> }

InitTone ==
  /\ InitState(TRUE, TRUE, DefaultSettings, FALSE)
  /\ lim = Limits(ToneSlots, ToneVoices, 0, ToneTimers, {})

NextTone ==
  \/ timers = <<>> /\ \E pc \in TonePatterns : SetArp(TRUE, pc[1], pc[2])
  \/ timers = <<>> /\ TypingBoxKeyDown("a", ModsPlain)
  \/ FireArpTimer
  \/ \E t \in NextInstants : Advance(t - now)

SpecTone == InitTone /\ [][NextTone]_vars

\* C40: every arpeggio tone is dispatched with a strictly positive velocity
\* that decreases with its position: tone i of the sequence is asked for at
\* 0.25 - 0.02 * i, and its voice is created at 0.6 times that, above zero,
\* for every pattern and number of octaves.
C40_ArpVelocityPositive ==
  [][ FireArpTimer
        => LET requested == VEL_ONE \div 4 - Head(timers).i * (VEL_ONE \div 50)
               voice     == voicePool'[Len(voicePool')]
           IN  /\ voice.id = voiceCount'
               /\ voice.velocity = (requested * 60) \div 100
               /\ requested > 0
               /\ voice.velocity > 0 ]_vars

====
